---- MODULE Spec2Model ----
(***************************************************************************)
(* The synchronizer of bodgit/rom: Scan fills the checksum DB from the     *)
(* source directories, Update reconciles one TorrentZip per catalog game   *)
(* in the target directory with a pool of workers, Delete sweeps the       *)
(* target directory of everything that is no catalog game.                 *)
(***************************************************************************)
EXTENDS Integers, Sequences, FiniteSets, TLC

VARIABLES
  dryRun,    \* Synchronizer.dryRun
  missing,   \* Synchronizer.missing: the names of the games to skip
  dirs,      \* the directories handed to Scan
  fs,        \* the file system: path -> file
  db,        \* DB.checksums: checksum -> list of source
  matched,   \* dat.ROM.matched of every ROM of every game
  phase,     \* where sync() of cmd/rom is: scan, update, updated, failed, swept
  run,       \* which invocation of sync() this is: "first" or "second"
  pending,   \* the paths the directory walks emitted and no scan worker took yet
  next,      \* allGames: the index of the game the producer loop is at
  pc,        \* gameWorker: the position of every worker
  wgame,     \* gameWorker: the game the worker received
  ri,        \* create: the index of the ROM the loop over game.ROM is at
  sources,   \* create/modify: the local map sources
  rdr,       \* modify: the reader opened on the existing target
  wr,        \* create/modify: the members created in the TorrentZipWriter
  mutex,     \* Synchronizer.mutex, the RWMutex of create (shared) and modify
  tx,        \* Synchronizer.tx
  pre,       \* history: fs and db when Update began
  decided,   \* history: per game, the ROM names whose bucket was non-empty
  call,      \* a function of the packages called on its own: the call
  result     \* a function of the packages called on its own: the result so far

vars == <<dryRun, missing, dirs, fs, db, matched, phase, run, pending, next,
          pc, wgame, ri, sources, rdr, wr, mutex, tx, pre, decided, call, result>>

\* no function is called on its own while sync() runs
None == [op |-> "none"]

(***************************************************************************)
(* Bounds of the model.                                                    *)
(***************************************************************************)
NumWorkers == 2   \* Synchronizer.workers
MaxRepeat == 2    \* how often the source directory is listed for Scan
BodyLen == 20     \* the payload bytes of every ROM image of the model

Workers == 1..NumWorkers

(***************************************************************************)
(* ROM images.  An image is an optional iNES or Lynx header followed by a   *)
(* payload.                                                                *)
(***************************************************************************)
nesExtension == ".nes"
nesHeaderSize == 16
lynxExtension == ".lnx"
lynxHeaderSize == 64

Image(hdr, body) == [hdr |-> hdr, body |-> body]
P  == Image("none", "p")
Q  == Image("none", "q")
X  == Image("none", "x")
NP == Image("nes", "p")
\* a file of no bytes
Z  == Image("none", "")

\* filepath.Ext over the member names of the model
Ext(name) ==
  IF name \in {"g.nes", "h.nes"} THEN nesExtension
  ELSE IF name \in {"l.lnx"} THEN lynxExtension
  ELSE IF name \in {"a.bin", "b.bin", "x.bin", "h.bin", "z.bin"} THEN ".bin"
  ELSE IF name \in {"G1.zip", "G2.zip", "A.zip"} THEN ".zip"
  ELSE ""

\* name[0] == '.'
Hidden(name) == name \in {".hid", "._a.zip", ".roms"}

\* the stored (uncompressed) size of an image
StoredSize(c) ==
  (IF c.hdr = "nes" THEN nesHeaderSize
   ELSE IF c.hdr = "lynx" THEN lynxHeaderSize ELSE 0)
    + (IF c.body = "" THEN 0 ELSE BodyLen)

\* nesReader: the header is stripped when the magic is there
nesReader(c) == IF c.hdr = "nes" THEN Image("none", c.body) ELSE c

\* lynxReader: the header is stripped when the magic is there
lynxReader(c) == IF c.hdr = "lynx" THEN Image("none", c.body) ELSE c

\* headerSizeFunction(filename) applied to the image
headerSize(name, c) ==
  IF Ext(name) = nesExtension /\ c.hdr = "nes" THEN nesHeaderSize
  ELSE IF Ext(name) = lynxExtension /\ c.hdr = "lynx" THEN lynxHeaderSize
  ELSE 0

\* io.CopyN in nesReader and lynxReader: the error of a stream shorter than
\* the header
headerSizeErr(name, c) ==
  \/ Ext(name) = nesExtension /\ StoredSize(c) < nesHeaderSize
  \/ Ext(name) = lynxExtension /\ StoredSize(c) < lynxHeaderSize

\* the extension has an entry in extensionToHeaderSize
hasHeader(name) == Ext(name) \in {lynxExtension, nesExtension}

\* the extension has an entry in extensionToChecksum
needsDirectChecksum(name) == Ext(name) = nesExtension

\* io.CopyN in the function of extensionToChecksum
checksumErr(name, c) == needsDirectChecksum(name) /\ StoredSize(c) < nesHeaderSize

\* checksumFunction(filename) applied to the image: the digest is taken
\* as the bytes it is computed over (no collisions)
checksumFunction(name, c) ==
  IF Ext(name) = nesExtension THEN nesReader(c) ELSE c

\* reader.Size(file): the stored size of the member and the size of the
\* header the checksum leaves out
readerSize(name, c) == [size |-> StoredSize(c), header |-> headerSize(name, c)]

\* the checksum struct DB.scan builds for one member
memberChecksum(name, c) ==
  [Value |-> checksumFunction(name, c),
   Size  |-> readerSize(name, c).size - readerSize(name, c).header]

(***************************************************************************)
(* The catalog (dat.File).                                                 *)
(***************************************************************************)
Rom(name, value, size) == [Name |-> name, Value |-> value, Size |-> size]

Game ==
  << [Name |-> "G1",
      ROM  |-> << Rom("a.bin", P, BodyLen), Rom("b.bin", Q, BodyLen) >>],
     [Name |-> "G2",
      ROM  |-> << Rom("g.nes", NP, nesHeaderSize + BodyLen) >>] >>

Games == 1..Len(Game)
GameNames == {Game[g].Name : g \in Games}
RomNames(g) == {Game[g].ROM[i].Name : i \in 1..Len(Game[g].ROM)}

gameFilename(game) == game.Name \o ".zip"

romChecksum(r) == [Value |-> r.Value, Size |-> r.Size]

(***************************************************************************)
(* Files.                                                                  *)
(***************************************************************************)
Absent == [t |-> "absent"]
\* what os.Create leaves until the writer is closed: no archive yet
Raw == [t |-> "raw"]
File(c) == [t |-> "file", c |-> c]
\* comment: the archive comment starts with TORRENTZIPPED-
\* valid: the CRC32 of the central directory is the one of the comment
Zip(mem, comment, valid) ==
  [t |-> "zip", mem |-> mem, comment |-> comment, valid |-> valid]
TorrentZip(mem) == Zip(mem, TRUE, TRUE)
Dir(inner) == [t |-> "dir", inner |-> inner]

Empty == [n \in {} |-> P]

Join(dir, name) == <<dir, name>>
Base(path) == path[2]

TargetDir == "T"
SourceDir == "S"

TempName(w) == "tmp" \o ToString(w)
TargetNames ==
  {gameFilename(Game[g]) : g \in Games} \cup {"orphan", ".hid"}
    \cup {TempName(w) : w \in Workers}
SourceNames == {"A.zip"}
Paths == {Join(TargetDir, n) : n \in TargetNames}
           \cup {Join(SourceDir, n) : n \in SourceNames}

Target(g) == Join(TargetDir, gameFilename(Game[g]))

\* the entries of the target directory
Entries(f) == {n \in TargetNames : f[Join(TargetDir, n)].t # "absent"}

(***************************************************************************)
(* Readers.                                                                *)
(***************************************************************************)
\* NewZipReader: "ok", or the error of os.Open or zip.NewReader
NewZipReaderErr(f) ==
  IF f.t = "absent" THEN "notexist"
  ELSE IF f.t = "zip" THEN "ok"
  ELSE "badzip"

\* NewTorrentZipReader: the error of NewZipReader, or ErrNotTorrentZip
\* when the comment lacks the prefix
NewTorrentZipReaderErr(f) ==
  IF NewZipReaderErr(f) # "ok" THEN NewZipReaderErr(f)
  ELSE IF ~f.comment THEN "ErrNotTorrentZip"
  ELSE "ok"

\* reader.(rom.Validator) and v.Valid() of the reader modify ends up with
ReaderValid(f) == NewTorrentZipReaderErr(f) = "ok" /\ f.valid

\* NewReader: "ok" when the path can be opened by one of the readers
NewReaderErr(f) ==
  IF f.t = "absent" THEN "notexist"
  ELSE IF f.t \in {"zip", "file"} THEN "ok"
  ELSE "unreadable"

\* the members NewReader(path) gives access to: those of the archive, or
\* the one member FileReader makes of a regular file
ReaderMembers(path, f) ==
  IF f.t = "zip" THEN f.mem
  ELSE IF f.t = "file" THEN (Base(path) :> f.c)
  ELSE Empty

\* reader.Files()
Files(path, f) == DOMAIN ReaderMembers(path, f)

(***************************************************************************)
(* DB.                                                                     *)
(***************************************************************************)
newDB == [k \in {} |-> <<>>]

source(name, file) == [Name |-> name, File |-> file]

\* all the orders reader.Files() may list a set of members in
Orders(S) ==
  {o \in [1..Cardinality(S) -> S] : \A n \in S : \E i \in DOMAIN o : o[i] = n}

\* DB.scan, one round of its loop: the append of the source of one member
scanAppend(d, path, file, c) ==
  LET k == memberChecksum(file, c)
      s == source(path, file)
  IN IF k \in DOMAIN d
       THEN [d EXCEPT ![k] = Append(@, s)]
       ELSE d @@ (k :> <<s>>)

\* DB.scan: one append per member, in the order of reader.Files(), up to
\* the first member whose checksum cannot be computed
RECURSIVE scan(_, _, _, _)
scan(d, path, mem, files) ==
  IF files = <<>> THEN d
  ELSE IF checksumErr(Head(files), mem[Head(files)]) THEN d
  ELSE scan(scanAppend(d, path, Head(files), mem[Head(files)]),
            path, mem, Tail(files))

\* DB.find
find(d, k) == IF k \in DOMAIN d THEN d[k] ELSE <<>>

\* v filtered as DB.invalidate filters it
RECURSIVE Without(_, _)
Without(v, name) ==
  IF v = <<>> THEN <<>>
  ELSE IF Head(v).Name # name THEN <<Head(v)>> \o Without(Tail(v), name)
  ELSE Without(Tail(v), name)

\* DB.invalidate without the delete of the lists that end empty
invalidateKeepingEmpty(d, name) ==
  [k \in DOMAIN d |-> Without(d[k], name)]

\* DB.invalidate
invalidate(d, name) ==
  LET keep == {k \in DOMAIN d : Without(d[k], name) # <<>>}
  IN [k \in keep |-> Without(d[k], name)]

(***************************************************************************)
(* The source selection and the copy of transfer.                          *)
(***************************************************************************)
\* m[name] of popularSource: the entries named name in the lists of
\* more than one source
RECURSIVE Count(_, _, _)
Count(srcs, keys, name) ==
  IF keys = {} THEN 0
  ELSE LET k == CHOOSE x \in keys : TRUE
           here == IF Len(srcs[k]) > 1
                     THEN Cardinality({i \in DOMAIN srcs[k] : srcs[k][i].Name = name})
                     ELSE 0
       IN here + Count(srcs, keys \ {k}, name)

\* the archives named in the lists of srcs
Archives(srcs) ==
  UNION {{srcs[k][i].Name : i \in DOMAIN srcs[k]} : k \in DOMAIN srcs}

\* popularSource: the names it may return; the sort is not stable and the
\* map is ranged over in any order, so every name of the highest count may
\* come first.  No name stands for the return of "".
popularSource(srcs) ==
  LET names == {n \in Archives(srcs) : Count(srcs, DOMAIN srcs, n) > 0}
  IN {n \in names :
        \A o \in names :
          Count(srcs, DOMAIN srcs, o) <= Count(srcs, DOMAIN srcs, n)}

\* the first source of v that is in the archive name
FirstOf(v, name) ==
  v[CHOOSE i \in DOMAIN v :
      /\ v[i].Name = name
      /\ \A j \in 1..(i - 1) : v[j].Name # name]

\* one round of the loop of transfer without the assignment to sources[k]
CollapseNothing(srcs, name) == srcs

\* one round of the loop of transfer
Collapse(srcs, name) ==
  [k \in DOMAIN srcs |->
     IF Len(srcs[k]) = 1 THEN srcs[k]
     ELSE IF \E i \in DOMAIN srcs[k] : srcs[k][i].Name = name
       THEN <<FirstOf(srcs[k], name)>>
       ELSE srcs[k]]

\* the loop of transfer: every map it may end with
RECURSIVE Reduce(_)
Reduce(srcs) ==
  IF popularSource(srcs) = {} THEN {srcs}
  ELSE UNION {Reduce(Collapse(srcs, n)) : n \in popularSource(srcs)}

\* the copy loop with writer.Create(src.File) in place of
\* writer.Create(r.Name)
RECURSIVE copyUnderSourceName(_, _, _, _)
copyUnderSourceName(roms, sel, f, buf) ==
  IF roms = <<>> THEN [err |-> FALSE, buf |-> buf]
  ELSE LET r == Head(roms) IN
    IF r.Name \notin DOMAIN sel THEN copyUnderSourceName(Tail(roms), sel, f, buf)
    ELSE LET src == sel[r.Name][1] IN
      IF NewReaderErr(f[src.Name]) # "ok"
        THEN [err |-> TRUE, buf |-> buf]
      ELSE IF src.File \notin Files(src.Name, f[src.Name])
        THEN [err |-> TRUE, buf |-> buf]
      ELSE copyUnderSourceName(Tail(roms), sel, f,
                buf @@ (src.File :> ReaderMembers(src.Name, f[src.Name])[src.File]))

\* the copy loop with the reader of checksumFunction in place of
\* reader.Open(src.File): the header of an image is not copied
RECURSIVE copyWithoutHeader(_, _, _, _)
copyWithoutHeader(roms, sel, f, buf) ==
  IF roms = <<>> THEN [err |-> FALSE, buf |-> buf]
  ELSE LET r == Head(roms) IN
    IF r.Name \notin DOMAIN sel THEN copyWithoutHeader(Tail(roms), sel, f, buf)
    ELSE LET src == sel[r.Name][1] IN
      IF NewReaderErr(f[src.Name]) # "ok"
        THEN [err |-> TRUE, buf |-> buf]
      ELSE IF src.File \notin Files(src.Name, f[src.Name])
        THEN [err |-> TRUE, buf |-> buf]
      ELSE copyWithoutHeader(Tail(roms), sel, f,
                buf @@ (r.Name :>
                  Image("none", ReaderMembers(src.Name, f[src.Name])[src.File].body)))

\* the copy loop of transfer over the ROMs of the game: the members created
\* in the writer, and whether a reader or a member could not be opened
RECURSIVE copy(_, _, _, _)
copy(roms, sel, f, buf) ==
  IF roms = <<>> THEN [err |-> FALSE, buf |-> buf]
  ELSE LET r == Head(roms) IN
    IF r.Name \notin DOMAIN sel THEN copy(Tail(roms), sel, f, buf)
    ELSE LET src == sel[r.Name][1] IN
      IF NewReaderErr(f[src.Name]) # "ok"
        THEN [err |-> TRUE, buf |-> buf]
      ELSE IF src.File \notin Files(src.Name, f[src.Name])
        THEN [err |-> TRUE, buf |-> buf]
      ELSE copy(Tail(roms), sel, f,
                buf @@ (r.Name :> ReaderMembers(src.Name, f[src.Name])[src.File]))

\* writer.Tx(): the bytes of the members written
RECURSIVE Tx(_, _)
Tx(mem, names) ==
  IF names = {} THEN 0
  ELSE LET n == CHOOSE x \in names : TRUE
       IN StoredSize(mem[n]) + Tx(mem, names \ {n})

(***************************************************************************)
(* The initial state: the inputs of sync().                                *)
(***************************************************************************)
DirNames(dir) == IF dir = TargetDir THEN TargetNames ELSE SourceNames

Regular(f) == f.t \in {"zip", "file", "raw"}

\* findFiles: the regular files the walk of dir emits (no name of the model
\* starts with "._", and no directory is there while Scan runs)
findFiles(dir, f) ==
  {Join(dir, n) : n \in {x \in DirNames(dir) : Regular(f[Join(dir, x)])}}

\* Scan: what the walks of all of dirs emit, with multiplicity
Walk(ds, f) ==
  [p \in Paths |-> Cardinality({i \in DOMAIN ds : p \in findFiles(ds[i], f)})]

\* the argument lists of Scan, as sync() of cmd/rom passes them: the target
\* directory first, then the source directory, once or several times
ScanDirs ==
  {<<TargetDir>> \o [i \in 1..n |-> SourceDir] : n \in 1..MaxRepeat}

\* the missing lists: no game, or one game
MissingLists == {{}} \cup {{n} : n \in GameNames}

\* the target archive of G1 before the first run
InitG1 ==
  {Absent,
   TorrentZip("a.bin" :> P),
   Zip("a.bin" :> P, FALSE, FALSE),
   TorrentZip(("a.bin" :> P) @@ ("b.bin" :> X))}

\* the target archive of G2 before the first run
InitG2 == {Absent, TorrentZip("z.bin" :> Q)}

\* the source archive
InitA == {Zip("x.bin" :> P, FALSE, FALSE),
          Zip(("x.bin" :> P) @@ ("h.bin" :> NP), FALSE, FALSE)}

InitFS ==
  {[p \in Paths |->
      IF p = Join(TargetDir, "G1.zip") THEN g1
      ELSE IF p = Join(TargetDir, "G2.zip") THEN g2
      ELSE IF p = Join(TargetDir, "orphan") THEN (IF junk THEN File(Q) ELSE Absent)
      ELSE IF p = Join(TargetDir, ".hid") THEN (IF junk THEN File(X) ELSE Absent)
      ELSE IF p = Join(SourceDir, "A.zip") THEN a
      ELSE Absent] :
     g1 \in InitG1, g2 \in InitG2, a \in InitA, junk \in BOOLEAN}

Unmatched == [g \in Games |-> [i \in DOMAIN Game[g].ROM |-> FALSE]]
Undecided == [g \in Games |-> [done |-> FALSE, roms |-> {}]]
NoReader == [Name |-> <<>>, Files |-> {}, valid |-> FALSE]
Unlocked == [writer |-> 0, readers |-> {}]

Init ==
  /\ dryRun \in BOOLEAN
  /\ missing \in MissingLists
  /\ dirs \in ScanDirs
  /\ fs \in InitFS
  /\ db = newDB
  /\ matched = Unmatched
  /\ phase = "scan"
  /\ run = "first"
  /\ pending = Walk(dirs, fs)
  /\ next = 1
  /\ pc = [w \in Workers |-> "idle"]
  /\ wgame = [w \in Workers |-> 0]
  /\ ri = [w \in Workers |-> 1]
  /\ sources = [w \in Workers |-> Empty]
  /\ rdr = [w \in Workers |-> NoReader]
  /\ wr = [w \in Workers |-> Empty]
  /\ mutex = Unlocked
  /\ tx = 0
  /\ pre = [fs |-> fs, db |-> newDB]
  /\ decided = Undecided
  /\ call = None
  /\ result = None

(***************************************************************************)
(* Scan.                                                                   *)
(***************************************************************************)
\* scanFiles: one worker takes a path, opens it and publishes its members;
\* an error ends sync() (log.Fatal)
ScanFile(p) ==
  /\ phase = "scan"
  /\ pending[p] > 0
  /\ pending' = [pending EXCEPT ![p] = @ - 1]
  /\ IF NewReaderErr(fs[p]) # "ok"
       THEN /\ phase' = "failed"
            /\ db' = db
       ELSE /\ phase' = phase
            /\ \E o \in Orders(Files(p, fs[p])) :
                 db' = scan(db, p, ReaderMembers(p, fs[p]), o)
  /\ UNCHANGED <<dryRun, missing, dirs, fs, matched, run, next, pc, wgame, ri,
                 sources, rdr, wr, mutex, tx, pre, decided, call, result>>

\* Scan has returned: Reset of the counters, then Update starts its
\* producer and its workers
BeginUpdate ==
  /\ phase = "scan"
  /\ \A p \in Paths : pending[p] = 0
  /\ phase' = "update"
  /\ tx' = 0
  /\ next' = 1
  /\ pc' = [w \in Workers |-> "idle"]
  /\ pre' = [fs |-> fs, db |-> db]
  /\ decided' = Undecided
  /\ UNCHANGED <<dryRun, missing, dirs, fs, db, matched, run, pending, wgame,
                 ri, sources, rdr, wr, mutex, call, result>>

(***************************************************************************)
(* Update: the producer allGames and the workers gameWorker.               *)
(***************************************************************************)
config == <<dryRun, missing, dirs, run, pending, call, result>>

\* allGames without the lookup in s.missing
SkippedNever(name) == FALSE

\* allGames: whether the game is on the missing list
Skipped(name) == name \in missing

\* allGames: a game of the missing list is marked matched and not sent
Skip ==
  /\ phase = "update"
  /\ next <= Len(Game)
  /\ Skipped(Game[next].Name)
  /\ matched' = [matched EXCEPT ![next] = [i \in DOMAIN Game[next].ROM |-> TRUE]]
  /\ next' = next + 1
  /\ UNCHANGED <<config, fs, db, phase, pc, wgame, ri, sources, rdr, wr,
                 mutex, tx, pre, decided>>

\* allGames sends the game and an idle worker receives it; NewZipReader on
\* the target decides between create and modify
Receive(w) ==
  /\ phase = "update"
  /\ pc[w] = "idle"
  /\ next <= Len(Game)
  /\ ~Skipped(Game[next].Name)
  /\ wgame' = [wgame EXCEPT ![w] = next]
  /\ next' = next + 1
  /\ LET e == NewZipReaderErr(fs[Target(next)])
     IN pc' = [pc EXCEPT ![w] = IF e = "notexist" THEN "create"
                                ELSE IF e = "ok" THEN "modify"
                                ELSE "failed"]
  /\ UNCHANGED <<config, fs, db, matched, phase, ri, sources, rdr, wr, mutex,
                 tx, pre, decided>>

\* s.mutex.RLock() that goes through while modify holds the mutex
RLockReadyAlways(m) == TRUE

\* s.mutex.RLock() goes through when no goroutine holds s.mutex.Lock()
RLockReady(m) == m.writer = 0

RUnlock(m, w) == [m EXCEPT !.readers = @ \ {w}]

(***************************************************************************)
(* create.                                                                 *)
(***************************************************************************)
\* create: s.mutex.RLock() before the first ROM; db.find for one ROM of the
\* game; after the last ROM, the returns on no source at all and on dryRun
CFind(w) ==
  /\ phase = "update"
  /\ pc[w] = "create"
  /\ RLockReady(mutex)
  /\ LET g == wgame[w]
         r == Game[g].ROM[ri[w]]
         s == find(db, romChecksum(r))
         srcs == IF s # <<>> THEN sources[w] @@ (r.Name :> s) ELSE sources[w]
         last == ri[w] = Len(Game[g].ROM)
         ret == DOMAIN srcs = {} \/ dryRun
     IN /\ sources' = [sources EXCEPT ![w] = srcs]
        /\ ri' = [ri EXCEPT ![w] = @ + 1]
        /\ pc' = [pc EXCEPT ![w] = IF ~last THEN "create"
                                   ELSE IF ret THEN "match" ELSE "c_writer"]
        /\ mutex' = IF last /\ ret THEN RUnlock(mutex, w)
                    ELSE [mutex EXCEPT !.readers = @ \cup {w}]
        /\ decided' = IF last
                        THEN [decided EXCEPT ![g] = [done |-> TRUE, roms |-> DOMAIN srcs]]
                        ELSE decided
  /\ UNCHANGED <<config, fs, db, matched, phase, next, wgame, rdr, wr, tx, pre>>

\* create: NewTorrentZipWriter on the target path: os.Create
CWriter(w) ==
  /\ phase = "update"
  /\ pc[w] = "c_writer"
  /\ fs' = [fs EXCEPT ![Target(wgame[w])] = Raw]
  /\ wr' = [wr EXCEPT ![w] = Empty]
  /\ pc' = [pc EXCEPT ![w] = "c_transfer"]
  /\ UNCHANGED <<config, db, matched, phase, next, wgame, ri, sources, rdr,
                 mutex, tx, pre, decided>>

\* create: transfer
CTransfer(w) ==
  /\ phase = "update"
  /\ pc[w] = "c_transfer"
  /\ \E sel \in Reduce(sources[w]) :
       LET res == copy(Game[wgame[w]].ROM, sel, fs, Empty)
       IN /\ sources' = [sources EXCEPT ![w] = sel]
          /\ wr' = [wr EXCEPT ![w] = res.buf]
          /\ pc' = [pc EXCEPT ![w] = IF res.err THEN "c_abort" ELSE "c_close"]
  /\ UNCHANGED <<config, fs, db, matched, phase, next, wgame, ri, rdr, mutex,
                 tx, pre, decided>>

\* create returns the error of transfer: the deferred writer.Close() and
\* RUnlock()
CAbort(w) ==
  /\ phase = "update"
  /\ pc[w] = "c_abort"
  /\ fs' = [fs EXCEPT ![Target(wgame[w])] = TorrentZip(wr[w])]
  /\ mutex' = RUnlock(mutex, w)
  /\ pc' = [pc EXCEPT ![w] = "failed"]
  /\ UNCHANGED <<config, db, matched, phase, next, wgame, ri, sources, rdr,
                 wr, tx, pre, decided>>

\* create: writer.Close() and the addition to tx
CClose(w) ==
  /\ phase = "update"
  /\ pc[w] = "c_close"
  /\ fs' = [fs EXCEPT ![Target(wgame[w])] = TorrentZip(wr[w])]
  /\ tx' = tx + Tx(wr[w], DOMAIN wr[w])
  /\ pc' = [pc EXCEPT ![w] = "c_scan"]
  /\ UNCHANGED <<config, db, matched, phase, next, wgame, ri, sources, rdr,
                 wr, mutex, pre, decided>>

\* create: NewTorrentZipReader on the target and db.scan, then the return
CScan(w) ==
  /\ phase = "update"
  /\ pc[w] = "c_scan"
  /\ LET p == Target(wgame[w]) IN
       IF NewTorrentZipReaderErr(fs[p]) # "ok"
         THEN /\ db' = db
              /\ pc' = [pc EXCEPT ![w] = "failed"]
         ELSE /\ \E o \in Orders(Files(p, fs[p])) :
                   db' = scan(db, p, ReaderMembers(p, fs[p]), o)
              /\ pc' = [pc EXCEPT ![w] = "match"]
  /\ mutex' = RUnlock(mutex, w)
  /\ UNCHANGED <<config, fs, matched, phase, next, wgame, ri, sources, rdr,
                 wr, tx, pre, decided>>

(***************************************************************************)
(* modify.                                                                 *)
(***************************************************************************)
\* s.mutex.Lock() that goes through while create holds the read lock
LockReadyDespiteReaders(m) == m.writer = 0

\* s.mutex.Lock() goes through when no goroutine holds s.mutex in any way
LockReady(m) == m = Unlocked

Unlock(m) == [m EXCEPT !.writer = 0]

\* the source of the existing target itself among srcs, if any
SelfRef(srcs, name, file) ==
  \E i \in DOMAIN srcs : srcs[i].Name = name /\ srcs[i].File = file

\* the map sources modify builds over the ROMs of the game
modifySources(d, g, name) ==
  LET has == {i \in DOMAIN Game[g].ROM : find(d, romChecksum(Game[g].ROM[i])) # <<>>}
      byName == [n \in {Game[g].ROM[i].Name : i \in has} |->
                   CHOOSE i \in has : Game[g].ROM[i].Name = n]
  IN [n \in DOMAIN byName |->
        LET r == Game[g].ROM[byName[n]]
            srcs == find(d, romChecksum(r))
        IN IF SelfRef(srcs, name, r.Name)
             THEN <<source(name, r.Name)>>
             ELSE srcs]

\* rewrite without the check of the Validator
modifyRewriteUnvalidated(d, g, name, valid) ==
  \E i \in DOMAIN Game[g].ROM :
    LET srcs == find(d, romChecksum(Game[g].ROM[i]))
    IN srcs # <<>> /\ ~SelfRef(srcs, name, Game[g].ROM[i].Name)

\* rewrite, as modify has it before the switch
modifyRewrite(d, g, name, valid) ==
  \/ ~valid
  \/ \E i \in DOMAIN Game[g].ROM :
       LET srcs == find(d, romChecksum(Game[g].ROM[i]))
       IN srcs # <<>> /\ ~SelfRef(srcs, name, Game[g].ROM[i].Name)

\* modify without the return on dryRun before os.RemoveAll
modifyStepRemoving(rewrite, n, nfiles, dry) ==
  IF ~rewrite /\ n = nfiles THEN "match"
  ELSE IF n = 0 THEN "m_delete"
  ELSE IF dry THEN "match"
  ELSE "m_temp"

\* modify without the comparison of len(sources) with len(reader.Files())
modifyStepUncounted(rewrite, n, nfiles, dry) ==
  IF ~rewrite THEN "match"
  ELSE IF n = 0 THEN (IF dry THEN "match" ELSE "m_delete")
  ELSE IF dry THEN "match"
  ELSE "m_temp"

\* modify: where it goes after the lookups: the return when nothing is to be
\* done, the returns on dryRun, the removal, or the rewrite
modifyStep(rewrite, n, nfiles, dry) ==
  IF ~rewrite /\ n = nfiles THEN "match"
  ELSE IF n = 0 THEN (IF dry THEN "match" ELSE "m_delete")
  ELSE IF dry THEN "match"
  ELSE "m_temp"

\* modify: s.mutex.Lock(), the readers on the existing target, the lookups,
\* the decision and the returns on dryRun
MOpen(w) ==
  /\ phase = "update"
  /\ pc[w] = "modify"
  /\ LockReady(mutex)
  /\ LET g == wgame[w]
         p == Target(g)
         e == NewTorrentZipReaderErr(fs[p])
         files == Files(p, fs[p])
         srcs == modifySources(db, g, p)
         rewrite == modifyRewrite(db, g, p, ReaderValid(fs[p]))
         n == Cardinality(DOMAIN srcs)
         to == modifyStep(rewrite, n, Cardinality(files), dryRun)
     IN IF e \notin {"ok", "ErrNotTorrentZip"}
          THEN /\ pc' = [pc EXCEPT ![w] = "failed"]
               /\ mutex' = mutex
               /\ UNCHANGED <<rdr, sources, decided>>
          ELSE /\ rdr' = [rdr EXCEPT ![w] =
                            [Name |-> p, Files |-> files, valid |-> ReaderValid(fs[p])]]
               /\ sources' = [sources EXCEPT ![w] = srcs]
               /\ decided' = [decided EXCEPT ![g] = [done |-> TRUE, roms |-> DOMAIN srcs]]
               /\ pc' = [pc EXCEPT ![w] = to]
               /\ mutex' = IF to = "match" THEN mutex
                           ELSE [mutex EXCEPT !.writer = w]
  /\ UNCHANGED <<config, fs, db, matched, phase, next, wgame, ri, wr, tx, pre>>

\* modify, no source at all: os.RemoveAll(reader.Name())
MDelete(w) ==
  /\ phase = "update"
  /\ pc[w] = "m_delete"
  /\ fs' = [fs EXCEPT ![rdr[w].Name] = Absent]
  /\ mutex' = Unlock(mutex)
  /\ pc' = [pc EXCEPT ![w] = "match"]
  /\ UNCHANGED <<config, db, matched, phase, next, wgame, ri, sources, rdr,
                 wr, tx, pre, decided>>

Temp(w) == Join(TargetDir, TempName(w))

\* modify: ioutil.TempDir(dir, "") and NewTorrentZipWriter in it
MTemp(w) ==
  /\ phase = "update"
  /\ pc[w] = "m_temp"
  /\ fs' = [fs EXCEPT ![Temp(w)] = Dir(Raw)]
  /\ wr' = [wr EXCEPT ![w] = Empty]
  /\ pc' = [pc EXCEPT ![w] = "m_transfer"]
  /\ UNCHANGED <<config, db, matched, phase, next, wgame, ri, sources, rdr,
                 mutex, tx, pre, decided>>

\* modify: transfer
MTransfer(w) ==
  /\ phase = "update"
  /\ pc[w] = "m_transfer"
  /\ \E sel \in Reduce(sources[w]) :
       LET res == copy(Game[wgame[w]].ROM, sel, fs, Empty)
       IN /\ sources' = [sources EXCEPT ![w] = sel]
          /\ wr' = [wr EXCEPT ![w] = res.buf]
          /\ pc' = [pc EXCEPT ![w] = IF res.err THEN "m_abort" ELSE "m_close"]
  /\ UNCHANGED <<config, fs, db, matched, phase, next, wgame, ri, rdr, mutex,
                 tx, pre, decided>>

\* modify returns the error of transfer: the deferred writer.Close(),
\* os.RemoveAll(temp) and Unlock()
MAbort(w) ==
  /\ phase = "update"
  /\ pc[w] = "m_abort"
  /\ fs' = [fs EXCEPT ![Temp(w)] = Absent]
  /\ mutex' = Unlock(mutex)
  /\ pc' = [pc EXCEPT ![w] = "failed"]
  /\ UNCHANGED <<config, db, matched, phase, next, wgame, ri, sources, rdr,
                 wr, tx, pre, decided>>

\* modify: writer.Close() and the addition to tx
MClose(w) ==
  /\ phase = "update"
  /\ pc[w] = "m_close"
  /\ fs' = [fs EXCEPT ![Temp(w)] = Dir(TorrentZip(wr[w]))]
  /\ tx' = tx + Tx(wr[w], DOMAIN wr[w])
  /\ pc' = [pc EXCEPT ![w] = "m_rename"]
  /\ UNCHANGED <<config, db, matched, phase, next, wgame, ri, sources, rdr,
                 wr, mutex, pre, decided>>

\* modify: os.Rename(filename, reader.Name())
MRename(w) ==
  /\ phase = "update"
  /\ pc[w] = "m_rename"
  /\ fs' = [fs EXCEPT ![rdr[w].Name] = fs[Temp(w)].inner,
                      ![Temp(w)] = Dir(Absent)]
  /\ pc' = [pc EXCEPT ![w] = "m_inval"]
  /\ UNCHANGED <<config, db, matched, phase, next, wgame, ri, sources, rdr,
                 wr, mutex, tx, pre, decided>>

\* modify: db.invalidate(reader.Name())
MInvalidate(w) ==
  /\ phase = "update"
  /\ pc[w] = "m_inval"
  /\ db' = invalidate(db, rdr[w].Name)
  /\ pc' = [pc EXCEPT ![w] = "m_scan"]
  /\ UNCHANGED <<config, fs, matched, phase, next, wgame, ri, sources, rdr,
                 wr, mutex, tx, pre, decided>>

\* modify: NewTorrentZipReader on the target and db.scan, then the return
\* with the deferred os.RemoveAll(temp) and Unlock()
MScan(w) ==
  /\ phase = "update"
  /\ pc[w] = "m_scan"
  /\ LET p == Target(wgame[w]) IN
       IF NewTorrentZipReaderErr(fs[p]) # "ok"
         THEN /\ db' = db
              /\ pc' = [pc EXCEPT ![w] = "failed"]
         ELSE /\ \E o \in Orders(Files(p, fs[p])) :
                   db' = scan(db, p, ReaderMembers(p, fs[p]), o)
              /\ pc' = [pc EXCEPT ![w] = "match"]
  /\ fs' = [fs EXCEPT ![Temp(w)] = Absent]
  /\ mutex' = Unlock(mutex)
  /\ UNCHANGED <<config, matched, phase, next, wgame, ri, sources, rdr, wr,
                 tx, pre, decided>>

(***************************************************************************)
(* The end of one round of gameWorker, of Update, and Delete.              *)
(***************************************************************************)
\* gameWorker: the ROMs whose name is a member of the target are matched
Match(w) ==
  /\ phase = "update"
  /\ pc[w] = "match"
  /\ LET g == wgame[w]
         p == Target(g)
         e == NewZipReaderErr(fs[p])
     IN /\ pc' = [pc EXCEPT ![w] = IF e \in {"ok", "notexist"} THEN "idle"
                                   ELSE "failed"]
        /\ matched' = IF e = "ok"
                        THEN [matched EXCEPT ![g] =
                                [i \in DOMAIN Game[g].ROM |->
                                   @[i] \/ Game[g].ROM[i].Name \in Files(p, fs[p])]]
                        ELSE matched
  /\ wgame' = [wgame EXCEPT ![w] = 0]
  /\ ri' = [ri EXCEPT ![w] = 1]
  /\ sources' = [sources EXCEPT ![w] = Empty]
  /\ rdr' = [rdr EXCEPT ![w] = NoReader]
  /\ wr' = [wr EXCEPT ![w] = Empty]
  /\ UNCHANGED <<config, fs, db, phase, next, mutex, tx, pre, decided>>

\* Update returns nil: allGames has closed the channel and every worker,
\* waiting on it, has returned without an error
EndUpdate ==
  /\ phase = "update"
  /\ next > Len(Game)
  /\ \A w \in Workers : pc[w] = "idle"
  /\ phase' = "updated"
  /\ UNCHANGED <<config, fs, db, matched, next, pc, wgame, ri, sources, rdr,
                 wr, mutex, tx, pre, decided>>

\* Update returns the error of a worker and sync() ends in log.Fatal,
\* wherever the other workers are
Fatal ==
  /\ phase = "update"
  /\ \E w \in Workers : pc[w] = "failed"
  /\ phase' = "failed"
  /\ UNCHANGED <<config, fs, db, matched, next, pc, wgame, ri, sources, rdr,
                 wr, mutex, tx, pre, decided>>

\* the names kept when games is keyed by game.Name, not by gameFilename(game)
KeptByGameName(name) ==
  name \in GameNames \/ Hidden(name)

\* the names Delete keeps: a game's file, or a name that starts with a dot
Kept(name) ==
  name \in {gameFilename(Game[g]) : g \in Games} \/ Hidden(name)

\* Delete, which sync() calls after Update returned nil
Delete ==
  /\ phase = "updated"
  /\ phase' = "swept"
  /\ fs' = [p \in Paths |->
              IF p[1] = TargetDir /\ ~Kept(Base(p)) /\ ~dryRun
                THEN Absent ELSE fs[p]]
  /\ UNCHANGED <<config, db, matched, next, pc, wgame, ri, sources, rdr, wr,
                 mutex, tx, pre, decided>>

\* sync() is invoked again with the same arguments and the same catalog
Again ==
  /\ phase = "swept"
  /\ run = "first"
  /\ run' = "second"
  /\ phase' = "scan"
  /\ db' = newDB
  /\ matched' = Unmatched
  /\ pending' = Walk(dirs, fs)
  /\ UNCHANGED <<dryRun, missing, dirs, fs, next, pc, wgame, ri, sources, rdr,
                 wr, mutex, tx, pre, decided, call, result>>

Next ==
  \/ \E p \in Paths : ScanFile(p)
  \/ BeginUpdate
  \/ Skip
  \/ \E w \in Workers :
       \/ Receive(w)
       \/ CFind(w) \/ CWriter(w) \/ CTransfer(w) \/ CAbort(w)
       \/ CClose(w) \/ CScan(w)
       \/ MOpen(w) \/ MDelete(w) \/ MTemp(w)
       \/ MTransfer(w) \/ MAbort(w) \/ MClose(w) \/ MRename(w)
       \/ MInvalidate(w) \/ MScan(w)
       \/ Match(w)
  \/ EndUpdate
  \/ Fatal
  \/ Delete
  \/ Again

Spec == Init /\ [][Next]_vars

(***************************************************************************)
(* Properties.                                                             *)
(***************************************************************************)
ValidTorrentZip(f) == f.t = "zip" /\ f.comment /\ f.valid

Members(f) == IF f.t = "zip" THEN DOMAIN f.mem ELSE {}

InUpdate == phase \in {"update", "updated"}
Succeeded == phase \in {"updated", "swept"}

\* C1: during an Update that is no dry run the file at a game's target
\* path is at every instant absent, its content from before the run, or a
\* completely written canonical Zip.
C1_TargetAtomic ==
  (InUpdate /\ ~dryRun) =>
    \A g \in Games :
      \/ fs[Target(g)] = Absent
      \/ fs[Target(g)] = pre.fs[Target(g)]
      \/ ValidTorrentZip(fs[Target(g)])

C3_MatchedByFingerprint ==
  phase = "updated" =>
    \A g \in Games : \A i \in DOMAIN Game[g].ROM :
      matched[g][i] =>
        \/ Game[g].Name \in missing
        \/ /\ Game[g].ROM[i].Name \in decided[g].roms
           /\ Game[g].ROM[i].Name \in Members(fs[Target(g)])

\* C4 as claimed: after a successful Update that is no dry run every file
\* named for a catalog game is a valid canonical Zip.
C4_AllTargetsCanonical ==
  (Succeeded /\ ~dryRun) =>
    \A g \in Games :
      fs[Target(g)] = Absent \/ ValidTorrentZip(fs[Target(g)])

\* C4 as amended: after a successful Update that is no dry run every file
\* named for a catalog game that is not on the missing list is a valid
\* canonical Zip.
C4_ReconciledTargetsCanonical ==
  (Succeeded /\ ~dryRun) =>
    \A g \in Games :
      Game[g].Name \notin missing =>
        fs[Target(g)] = Absent \/ ValidTorrentZip(fs[Target(g)])

\* C4, its case: a target that was no canonical Zip has been rebuilt
C4_Witness ==
  /\ phase = "updated" /\ ~dryRun
  /\ \E g \in Games :
       /\ Game[g].Name \notin missing
       /\ pre.fs[Target(g)].t = "zip"
       /\ ~ValidTorrentZip(pre.fs[Target(g)])
       /\ ValidTorrentZip(fs[Target(g)])

\* C5: in a second run after a successful first one, Update changes no
\* target file and adds nothing to tx.
C5_Idempotent ==
  (run = "second" /\ InUpdate /\ ~dryRun) =>
    /\ tx = 0
    /\ \A g \in Games : fs[Target(g)] = pre.fs[Target(g)]
    /\ \A w \in Workers :
         pc[w] \notin {"c_writer", "c_transfer", "c_close", "c_scan",
                       "m_delete", "m_temp", "m_transfer", "m_close",
                       "m_rename", "m_inval", "m_scan"}

\* a name of the form <g.Name>.zip for a game g of the catalog
NamedForGame(n) == \E g \in Games : n = Game[g].Name \o ".zip"

\* C6: after a successful Update and a Delete that is no dry run, every
\* entry of the target directory whose name does not start with a dot is
\* named for a game of the catalog; and Delete removes no entry that is named
\* for a game or whose name starts with a dot.
C6_SweepKeepsGamesAndHidden ==
  /\ []((phase = "swept" /\ ~dryRun) =>
          \A n \in TargetNames :
            fs[Join(TargetDir, n)] # Absent => (Hidden(n) \/ NamedForGame(n)))
  /\ [][(phase = "updated" /\ phase' = "swept") =>
          \A n \in TargetNames :
            (Hidden(n) \/ NamedForGame(n)) =>
              fs'[Join(TargetDir, n)] = fs[Join(TargetDir, n)]]_vars

\* C6, its case: Delete has removed an orphan and left a game's file and a
\* hidden entry
C6_Witness ==
  /\ phase = "swept" /\ ~dryRun
  /\ pre.fs[Join(TargetDir, "orphan")] # Absent
  /\ fs[Join(TargetDir, "orphan")] = Absent
  /\ fs[Join(TargetDir, ".hid")] # Absent
  /\ \E g \in Games : fs[Target(g)] # Absent

\* C7: with dryRun set, no step of Update or Delete changes an entry of the
\* target directory or the DB.
C7_DryRunChangesNothing ==
  [][(dryRun /\ phase \in {"update", "updated"}) =>
       /\ \A n \in TargetNames :
            fs'[Join(TargetDir, n)] = fs[Join(TargetDir, n)]
       /\ db' = db]_vars

\* C7, its case: a dry run has passed Update and Delete with a target that
\* has no source left, a target that is no canonical Zip, and an orphan
C7_Witness ==
  /\ phase = "swept" /\ dryRun
  /\ fs[Join(TargetDir, "orphan")] # Absent
  /\ \E g \in Games :
       decided[g].done /\ decided[g].roms = {} /\ fs[Target(g)] # Absent
  /\ \E g \in Games :
       /\ decided[g].done /\ decided[g].roms # {}
       /\ fs[Target(g)].t = "zip" /\ ~ValidTorrentZip(fs[Target(g)])

\* C8: a game of the missing list is never with a worker, its target stays
\* as it was before Update, and after Update all its ROMs are matched.
C8_MissingGameUntouched ==
  \A g \in Games :
    Game[g].Name \in missing =>
      /\ \A w \in Workers : wgame[w] # g
      /\ phase \in {"update", "updated", "swept"} =>
           fs[Target(g)] = pre.fs[Target(g)]
      /\ Succeeded => \A i \in DOMAIN Game[g].ROM : matched[g][i]

\* C8, its case: Update has ended with a game of the missing list whose
\* target is no canonical Zip and whose ROMs have sources
C8_Witness ==
  /\ phase = "updated" /\ ~dryRun
  /\ \E g \in Games :
       /\ Game[g].Name \in missing
       /\ pre.fs[Target(g)].t = "zip"
       /\ ~ValidTorrentZip(pre.fs[Target(g)])
       /\ fs[Target(g)] = pre.fs[Target(g)]
       /\ \E i \in DOMAIN Game[g].ROM : find(db, romChecksum(Game[g].ROM[i])) # <<>>
       /\ \A i \in DOMAIN Game[g].ROM : matched[g][i]

\* C9: while no worker is inside create or modify, every source of the DB
\* that names a path of the target directory names a member of the file at
\* that path.
C9_IndexIntegrity ==
  (InUpdate /\ \A w \in Workers : pc[w] \in {"idle", "match", "failed"}) =>
    \A k \in DOMAIN db : \A i \in DOMAIN db[k] :
      db[k][i].Name[1] = TargetDir =>
        db[k][i].File \in Files(db[k][i].Name, fs[db[k][i].Name])

\* C10: no bucket of the DB holds the same source twice.
C10_NoDuplicateSource ==
  \A k \in DOMAIN db : \A i, j \in DOMAIN db[k] :
    i # j => db[k][i] # db[k][j]

(***************************************************************************)
(* The functions of the packages, each called on its own.  While one of    *)
(* them is under test sync() does not run: its variables rest.             *)
(***************************************************************************)
NoFiles == [p \in Paths |-> Absent]

resting == <<dryRun, missing, dirs, matched, phase, run, pending, next, pc,
             wgame, ri, sources, rdr, wr, mutex, tx, pre, decided>>

Resting ==
  /\ dryRun = FALSE
  /\ missing = {}
  /\ dirs = <<TargetDir>>
  /\ matched = Unmatched
  /\ phase = "rest"
  /\ run = "first"
  /\ pending = [p \in Paths |-> 0]
  /\ next = 1
  /\ pc = [w \in Workers |-> "idle"]
  /\ wgame = [w \in Workers |-> 0]
  /\ ri = [w \in Workers |-> 1]
  /\ sources = [w \in Workers |-> Empty]
  /\ rdr = [w \in Workers |-> NoReader]
  /\ wr = [w \in Workers |-> Empty]
  /\ mutex = Unlocked
  /\ tx = 0
  /\ pre = [fs |-> NoFiles, db |-> newDB]
  /\ decided = Undecided

(***************************************************************************)
(* DB: any sequence of scan and invalidate.                                *)
(***************************************************************************)
MaxSources == 4   \* the sources the DB holds at most

\* the files the DB is filled from: three archives with a member of the
\* same checksum, and two loose files
DBFiles ==
  {[p \in Paths |->
      IF p = Join(SourceDir, "A.zip") THEN a
      ELSE IF p = Join(TargetDir, "G1.zip") THEN g1
      ELSE IF p = Join(TargetDir, "G2.zip") THEN g2
      ELSE IF p = Join(TargetDir, "orphan") THEN File(Q)
      ELSE IF p = Join(TargetDir, ".hid") THEN File(X)
      ELSE Absent] :
     a \in InitA, g1 \in InitG1 \ {Absent},
     g2 \in {TorrentZip("z.bin" :> Q), TorrentZip("z.bin" :> P)}}

\* the number of sources in all the lists of the DB
NumSources(d) ==
  Cardinality(UNION {{<<k, i>> : i \in DOMAIN d[k]} : k \in DOMAIN d})

InitDB ==
  /\ Resting
  /\ fs \in DBFiles
  /\ db = newDB
  /\ call = None
  /\ result = None

\* db.scan(reader, t) on the reader of path p
DBScan(p) ==
  /\ NewReaderErr(fs[p]) = "ok"
  /\ NumSources(db) + Cardinality(Files(p, fs[p])) <= MaxSources
  /\ \E o \in Orders(Files(p, fs[p])) :
       db' = scan(db, p, ReaderMembers(p, fs[p]), o)
  /\ call' = [op |-> "scan", name |-> p, db |-> db]
  /\ UNCHANGED <<resting, fs, result>>

\* db.invalidate(name)
DBInvalidate(p) ==
  /\ db' = invalidate(db, p)
  /\ call' = [op |-> "invalidate", name |-> p, db |-> db]
  /\ UNCHANGED <<resting, fs, result>>

NextDB ==
  \/ \E p \in Paths : DBScan(p)
  \/ \E p \in Paths : DBInvalidate(p)

SpecDB == InitDB /\ [][NextDB]_vars

\* C11: invalidate(name) removes from every list the sources of the archive
\* name, deletes every list that becomes empty, and leaves the sources of
\* all other archives there, in the order they had.
C11_InvalidateRemovesArchive ==
  call.op = "invalidate" =>
    LET other(s) == s.Name # call.name
        others(v) == SelectSeq(v, other)
    IN /\ DOMAIN db = {k \in DOMAIN call.db : others(call.db[k]) # <<>>}
       /\ \A k \in DOMAIN db : db[k] = others(call.db[k])

\* C11, its case: invalidate has emptied one list and has taken a source
\* from between the sources of two other archives in another list
C11_Witness ==
  /\ call.op = "invalidate"
  /\ \E k \in DOMAIN call.db : k \notin DOMAIN db
  /\ \E k \in DOMAIN call.db : \E i, j, l \in DOMAIN call.db[k] :
       /\ i < j /\ j < l
       /\ call.db[k][i].Name # call.name
       /\ call.db[k][j].Name = call.name
       /\ call.db[k][l].Name # call.name
       /\ call.db[k][i].Name # call.db[k][l].Name
       /\ k \in DOMAIN db
       /\ db[k] = <<call.db[k][i], call.db[k][l]>>

(***************************************************************************)
(* transfer: the loop that reduces the sources, called on any map.         *)
(***************************************************************************)
MaxSelRoms == 3   \* the ROMs of the game whose sources are reduced

SelRoms == {<<"x", "y", "z", "w", "v", "u">>[i] : i \in 1..MaxSelRoms}
SelArchives == {"A", "B", "C"}

\* the archives db.find may list for one ROM: some archives, each once
ArchiveLists ==
  {s \in UNION {[1..n -> SelArchives] : n \in 1..Cardinality(SelArchives)} :
     \A i, j \in DOMAIN s : i # j => s[i] # s[j]}

\* the map sources when every ROM has a list
SelSources(s) == [r \in SelRoms |-> [i \in DOMAIN s[r] |-> source(s[r][i], r)]]

InitSelect ==
  /\ Resting
  /\ fs = NoFiles
  /\ db = newDB
  /\ \E s \in [SelRoms -> ArchiveLists] :
       /\ call = [op |-> "transfer", sources |-> SelSources(s)]
       /\ result = [sources |-> SelSources(s), done |-> FALSE]

\* one round of the loop: popularSource returns a name and every list of
\* more than one source that has it is cut down to it
SelectRound ==
  /\ call.op = "transfer"
  /\ ~result.done
  /\ \E n \in popularSource(result.sources) :
       result' = [result EXCEPT !.sources = Collapse(result.sources, n)]
  /\ UNCHANGED <<resting, fs, db, call>>

\* popularSource returns "": the loop ends
SelectEnd ==
  /\ call.op = "transfer"
  /\ ~result.done
  /\ popularSource(result.sources) = {}
  /\ result' = [result EXCEPT !.done = TRUE]
  /\ UNCHANGED <<resting, fs, db, call>>

NextSelect == SelectRound \/ SelectEnd

SpecSelect == InitSelect /\ [][NextSelect]_vars

\* the archives a map of sources reads when the first source of every list
\* is taken
Chosen(srcs) == {srcs[k][1].Name : k \in DOMAIN srcs}

\* every way to take one source of its list for every ROM
Choices(srcs) ==
  {c \in [DOMAIN srcs -> SelArchives] :
     \A k \in DOMAIN srcs : \E i \in DOMAIN srcs[k] : srcs[k][i].Name = c[k]}

\* C12: the selection the loop ends with reads no more archives than any
\* other choice of one source per ROM.
C12_SelectionMinimal ==
  (call.op = "transfer" /\ result.done) =>
    \A c \in Choices(call.sources) :
      Cardinality(Chosen(result.sources))
        <= Cardinality({c[k] : k \in DOMAIN c})

\* C13: when an archive is in the list of every ROM, the loop ends with one
\* such archive chosen for every ROM.
C13_CommonArchiveChosen ==
  (call.op = "transfer" /\ result.done) =>
    LET common == {a \in SelArchives :
                     \A k \in DOMAIN call.sources :
                       \E i \in DOMAIN call.sources[k] : call.sources[k][i].Name = a}
    IN common # {} =>
         \E a \in common : \A k \in DOMAIN result.sources :
           result.sources[k][1].Name = a

(***************************************************************************)
(* The pipelines of Scan and Update: the stages with their error channels, *)
(* mergeErrors and waitForPipeline.                                        *)
(***************************************************************************)
\* the stages Scan or Update starts, each with its errc of capacity one
PipeDirs == 1

PipeWorkers == 2

PipeStages(op) ==
  IF op = "Update"
    THEN {<<"allGames", 1>>} \cup {<<"gameWorker", w>> : w \in 1..PipeWorkers}
    ELSE {<<"findFiles", i>> : i \in 1..PipeDirs}
           \cup {<<"mergeFiles", 1>>} \cup {<<"scanFiles", w>> : w \in 1..PipeWorkers}

Cancellations == {"cancelled", "walk cancelled"}

\* ctx.Done() is closed: cancelFunc is deferred, it runs when Scan or Update
\* returns
ctxDoneEarly(r) == r.ret # "pending" \/ r.sent \ {"nil"} # {}

ctxDone(r) == r.ret # "pending"

\* what a stage may send on its errc before it closes it
StageSends(s, r) ==
  CASE s[1] \in {"gameWorker", "scanFiles"} -> {"error"}
    [] s[1] = "findFiles" ->
         {"nil", "error"} \cup (IF ctxDone(r) THEN {"walk cancelled"} ELSE {})
    [] s[1] = "allGames" -> IF ctxDone(r) THEN {"cancelled"} ELSE {}
    [] OTHER -> {}

\* whether the stage returns after the send
SendReturns(s) == s[1] # "allGames"

\* whether the stage may return without a send
ReturnsSilent(s) == s[1] # "findFiles"

\* waitForPipeline without the test err != nil: it returns the first value
waitReturnsFirst(e) == TRUE

\* waitForPipeline: whether it returns the value it has read
waitReturns(e) == e # "nil"

InitPipe ==
  /\ Resting
  /\ fs = NoFiles
  /\ db = newDB
  /\ \E op \in {"Scan", "Update"} :
       /\ call = [op |-> op]
       /\ result = [stage |-> [s \in PipeStages(op) |-> "run"],
                    errc |-> [s \in PipeStages(op) |-> <<>>],
                    fwd |-> [s \in PipeStages(op) |-> <<"recv">>],
                    out |-> <<>>,
                    closed |-> FALSE,
                    sent |-> {},
                    ret |-> "pending"]

PipeOp == call.op \in {"Scan", "Update"}

\* a stage sends on its errc, and returns (the deferred close(errc))
StageSend(s) ==
  /\ PipeOp
  /\ result.stage[s] = "run"
  /\ Len(result.errc[s]) < 1
  /\ \E e \in StageSends(s, result) :
       result' = [result EXCEPT
                    !.errc[s] = Append(@, e),
                    !.stage[s] = IF SendReturns(s) THEN "closed" ELSE @,
                    !.sent = IF result.ret = "pending" THEN @ \cup {e} ELSE @]
  /\ UNCHANGED <<resting, fs, db, call>>

\* a stage returns with nothing sent
StageReturn(s) ==
  /\ PipeOp
  /\ result.stage[s] = "run"
  /\ ReturnsSilent(s)
  /\ result' = [result EXCEPT !.stage[s] = "closed"]
  /\ UNCHANGED <<resting, fs, db, call>>

\* mergeErrors, the goroutine of one channel: n := <-c
MergeReceive(s) ==
  /\ PipeOp
  /\ result.fwd[s] = <<"recv">>
  /\ \/ /\ result.errc[s] # <<>>
        /\ result' = [result EXCEPT !.fwd[s] = <<"send", Head(result.errc[s])>>,
                                    !.errc[s] = Tail(@)]
     \/ /\ result.errc[s] = <<>>
        /\ result.stage[s] = "closed"
        /\ result' = [result EXCEPT !.fwd[s] = <<"done">>]
  /\ UNCHANGED <<resting, fs, db, call>>

\* mergeErrors, the goroutine of one channel: out <- n
MergeSend(s) ==
  /\ PipeOp
  /\ result.fwd[s][1] = "send"
  /\ Len(result.out) < Cardinality(DOMAIN result.stage)
  /\ result' = [result EXCEPT !.out = Append(@, result.fwd[s][2]),
                              !.fwd[s] = <<"recv">>]
  /\ UNCHANGED <<resting, fs, db, call>>

\* mergeErrors: wg.Wait() and close(out)
MergeClose ==
  /\ PipeOp
  /\ ~result.closed
  /\ \A s \in DOMAIN result.fwd : result.fwd[s] = <<"done">>
  /\ result' = [result EXCEPT !.closed = TRUE]
  /\ UNCHANGED <<resting, fs, db, call>>

\* waitForPipeline reads one value and returns it when it is an error
WaitReceive ==
  /\ PipeOp
  /\ result.ret = "pending"
  /\ result.out # <<>>
  /\ result' = [result EXCEPT !.out = Tail(@),
                              !.ret = IF waitReturns(Head(result.out))
                                        THEN Head(result.out) ELSE @]
  /\ UNCHANGED <<resting, fs, db, call>>

\* waitForPipeline finds out closed and returns nil
WaitEnd ==
  /\ PipeOp
  /\ result.ret = "pending"
  /\ result.out = <<>>
  /\ result.closed
  /\ result' = [result EXCEPT !.ret = "nil"]
  /\ UNCHANGED <<resting, fs, db, call>>

NextPipe ==
  \/ \E s \in DOMAIN result.stage :
       StageSend(s) \/ StageReturn(s) \/ MergeReceive(s) \/ MergeSend(s)
  \/ MergeClose
  \/ WaitReceive
  \/ WaitEnd

SpecPipe == InitPipe /\ [][NextPipe]_vars

\* C14: Scan and Update return an error exactly when a stage has sent one,
\* and the error returned is none of the two cancellations.
C14_RealErrorReturned ==
  (PipeOp /\ result.ret # "pending") =>
    /\ result.ret # "nil" <=> result.sent \ {"nil"} # {}
    /\ result.ret \notin Cancellations

\* C14, its case: the error of a stage has been returned and a cancellation
\* that followed it is in a channel
C14_Witness ==
  /\ PipeOp
  /\ result.ret = "error"
  /\ \E s \in DOMAIN result.errc :
       \/ result.errc[s] # <<>> /\ Head(result.errc[s]) \in Cancellations
       \/ result.fwd[s][1] = "send" /\ result.fwd[s][2] \in Cancellations

(***************************************************************************)
(* The errors of the steps of the sync command: which of them the code     *)
(* tests and hands to its caller.                                          *)
(***************************************************************************)
MaxErrGames == 2

\* what gameWorker does for a game: create, modify with a rewrite, or modify
\* with no source left
ErrGames == {"create", "modify", "remove"}

\* the fallible steps of gameWorker for one game, in the order of the code
GameSteps(g) ==
  CASE g = "create" ->
         <<<<"Update", "NewTorrentZipWriter">>, <<"Update", "transfer">>,
           <<"Update", "writer.Close">>, <<"Update", "NewTorrentZipReader">>,
           <<"Update", "db.scan">>, <<"Update", "NewZipReader">>>>
    [] g = "modify" ->
         <<<<"Update", "NewTorrentZipReader">>, <<"Update", "TempDir">>,
           <<"Update", "NewTorrentZipWriter">>, <<"Update", "transfer">>,
           <<"Update", "writer.Close">>, <<"Update", "Rename">>,
           <<"Update", "NewTorrentZipReader">>, <<"Update", "db.scan">>,
           <<"Update", "NewZipReader">>>>
    [] OTHER ->
         <<<<"Update", "NewTorrentZipReader">>, <<"Update", "RemoveAll">>>>

RECURSIVE AllGameSteps(_)
AllGameSteps(games) ==
  IF games = <<>> THEN <<>>
  ELSE GameSteps(Head(games)) \o AllGameSteps(Tail(games))

\* the fallible steps of sync from Scan on
Program(games) ==
  <<<<"Scan", "waitForPipeline">>, <<"sync", "ReadAll">>, <<"sync", "Unmarshal">>>>
    \o AllGameSteps(games)
    \o <<<<"Delete", "Open">>, <<"Delete", "Readdirnames">>, <<"Delete", "RemoveAll">>,
         <<"sync", "MarshalIndent">>, <<"sync", "Write">>>>

\* the function tests the error of its step and returns it
Returned(step) == step[2] # "writer.Close"

\* sync tests the error of the function it called
logFatal(fn) == fn # "Delete"

\* the first position after the steps of the function of position i
RECURSIVE After(_, _)
After(prog, i) ==
  IF i < Len(prog) /\ prog[i + 1][1] = prog[i][1] THEN After(prog, i + 1) ELSE i + 1

InitErr ==
  /\ Resting
  /\ fs = NoFiles
  /\ db = newDB
  /\ \E n \in 1..MaxErrGames : \E games \in [1..n -> ErrGames] :
       call = [op |-> "sync", games |-> games]
  /\ result = [pc |-> 1, raised |-> {}, ret |-> "running"]

\* one step of the command, which succeeds or fails
ErrStep ==
  /\ call.op = "sync"
  /\ result.ret = "running"
  /\ result.pc <= Len(Program(call.games))
  /\ LET prog == Program(call.games)
         i == result.pc
     IN \/ result' = [result EXCEPT !.pc = i + 1]
        \/ result' = [pc |-> IF ~Returned(prog[i]) THEN i + 1
                             ELSE IF logFatal(prog[i][1]) THEN i
                             ELSE After(prog, i),
                      raised |-> result.raised \cup {i},
                      ret |-> IF Returned(prog[i]) /\ logFatal(prog[i][1])
                                THEN "fatal" ELSE "running"]
  /\ UNCHANGED <<resting, fs, db, call>>

\* sync returns nil
ErrEnd ==
  /\ call.op = "sync"
  /\ result.ret = "running"
  /\ result.pc > Len(Program(call.games))
  /\ result' = [result EXCEPT !.ret = "nil"]
  /\ UNCHANGED <<resting, fs, db, call>>

NextErr == ErrStep \/ ErrEnd

SpecErr == InitErr /\ [][NextErr]_vars

\* C15: when the command ends with success, no step of Scan, Update or the
\* sweep has failed.
C15_NoErrorLost ==
  (call.op = "sync" /\ result.ret = "nil") => result.raised = {}

(***************************************************************************)
(* Package dat: the matched flags of a File and its encoding as XML.       *)
(***************************************************************************)
MaxDatGames == 2

MaxDatRoms == 2

\* a ROM as unmarshalled: matched is false
DatROM(g, j) == [name |-> <<"rom", g, j>>, matched |-> FALSE]

DatGame(g, n) == [name |-> <<"game", g>>, rom |-> [j \in 1..n |-> DatROM(g, j)]]

\* the Files of up to MaxDatGames games of up to MaxDatRoms ROMs each
DatFiles ==
  UNION {{[g \in 1..n |-> DatGame(g, s[g])] : s \in [1..n -> 0..MaxDatRoms]}
          : n \in 0..MaxDatGames}

ROMMatched(r) == [r EXCEPT !.matched = TRUE]

ROMisComplete(r) == r.matched

ROMResetKeeps(r) == r

ROMReset(r) == [r EXCEPT !.matched = FALSE]

GameMatched(g) == [g EXCEPT !.rom = [j \in DOMAIN g.rom |-> ROMMatched(g.rom[j])]]

GameisCompleteAny(g) == \E j \in DOMAIN g.rom : ROMisComplete(g.rom[j])

GameisComplete(g) ==
  Cardinality({j \in DOMAIN g.rom : ROMisComplete(g.rom[j])}) = Len(g.rom)

GameReset(g) == [g EXCEPT !.rom = [j \in DOMAIN g.rom |-> ROMReset(g.rom[j])]]

FileisComplete(f) ==
  Cardinality({i \in DOMAIN f : GameisComplete(f[i])}) = Len(f)

FileReset(f) == [i \in DOMAIN f |-> GameReset(f[i])]

\* the tokens ROM.MarshalXML encodes: none, or the rom element
ROMMarshalXML(r) ==
  IF ROMisComplete(r) THEN <<>> ELSE <<[elem |-> "rom", name |-> r.name]>>

RECURSIVE MarshalROMs(_)
MarshalROMs(roms) ==
  IF roms = <<>> THEN <<>> ELSE ROMMarshalXML(Head(roms)) \o MarshalROMs(Tail(roms))

\* the game element: Game has no MarshalXML, its ROMs are encoded one by one
GameElement(g) == [elem |-> "game", name |-> g.name, rom |-> MarshalROMs(g.rom)]

RECURSIVE MarshalGames(_)
MarshalGames(f) ==
  IF f = <<>> THEN <<>>
  ELSE (IF GameisComplete(Head(f)) THEN <<>> ELSE <<GameElement(Head(f))>>)
         \o MarshalGames(Tail(f))

\* the tokens File.MarshalXML encodes
FileMarshalXML(f) ==
  IF FileisComplete(f) THEN <<>>
  ELSE <<[elem |-> "datafile"], [elem |-> "header"]>> \o MarshalGames(f)
         \o <<[elem |-> "/datafile"]>>

InitDat ==
  /\ Resting
  /\ fs = NoFiles
  /\ db = newDB
  /\ call = [op |-> "Unmarshal"]
  /\ \E f \in DatFiles :
       result = [orig |-> f, file |-> f, marked |-> FALSE, reset |-> FALSE, out |-> None]

DatOp == call.op \in {"Unmarshal", "ROM.Matched", "Game.Matched", "File.Reset", "MarshalXML"}

DatROMMatched(i, j) ==
  /\ DatOp
  /\ i \in DOMAIN result.file
  /\ j \in DOMAIN result.file[i].rom
  /\ call' = [op |-> "ROM.Matched"]
  /\ result' = [result EXCEPT !.file[i].rom[j] = ROMMatched(@), !.marked = TRUE,
                              !.reset = FALSE, !.out = None]
  /\ UNCHANGED <<resting, fs, db>>

DatGameMatched(i) ==
  /\ DatOp
  /\ i \in DOMAIN result.file
  /\ call' = [op |-> "Game.Matched"]
  /\ result' = [result EXCEPT !.file[i] = GameMatched(@), !.marked = TRUE,
                              !.reset = FALSE, !.out = None]
  /\ UNCHANGED <<resting, fs, db>>

DatFileReset ==
  /\ DatOp
  /\ call' = [op |-> "File.Reset"]
  /\ result' = [result EXCEPT !.file = FileReset(@), !.reset = TRUE, !.out = None]
  /\ UNCHANGED <<resting, fs, db>>

DatMarshal ==
  /\ DatOp
  /\ call' = [op |-> "MarshalXML", file |-> result.file]
  /\ result' = [result EXCEPT !.out = FileMarshalXML(result.file)]
  /\ UNCHANGED <<resting, fs, db>>

NextDat ==
  \/ \E i \in 1..MaxDatGames : \E j \in 1..MaxDatRoms : DatROMMatched(i, j)
  \/ \E i \in 1..MaxDatGames : DatGameMatched(i)
  \/ DatFileReset
  \/ DatMarshal

SpecDat == InitDat /\ [][NextDat]_vars

\* the game elements of an output
Emitted(out) == {out[k] : k \in {k \in DOMAIN out : out[k].elem = "game"}}

NotMatched(g) == {g.rom[j].name : j \in {j \in DOMAIN g.rom : ~g.rom[j].matched}}

\* C16: the output has a game element for exactly the games with a ROM not
\* matched, each with exactly its ROMs not matched, in the order of the File;
\* it is empty when every ROM of every game is matched.
C16_OnlyUnmatchedEmitted ==
  call.op = "MarshalXML" =>
    LET f == call.file
        out == result.out
        left == {i \in DOMAIN f : NotMatched(f[i]) # {}}
    IN /\ left = {} => out = <<>>
       /\ {e.name : e \in Emitted(out)} = {f[i].name : i \in left}
       /\ Cardinality({k \in DOMAIN out : out[k].elem = "game"}) = Cardinality(left)
       /\ \A i \in left : \E k \in DOMAIN out :
            /\ out[k].elem = "game"
            /\ out[k].name = f[i].name
            /\ {r.name : r \in {out[k].rom[j] : j \in DOMAIN out[k].rom}} = NotMatched(f[i])
            /\ Len(out[k].rom) = Cardinality(NotMatched(f[i]))
            /\ \A a, b \in DOMAIN out[k].rom : a < b => out[k].rom[a].name[3] < out[k].rom[b].name[3]
       /\ \A a, b \in DOMAIN out :
            (a < b /\ out[a].elem = "game" /\ out[b].elem = "game")
              => out[a].name[2] < out[b].name[2]

\* C16, its case: of two games one is left out, the other has lost one of
\* its two ROMs
C16_Witness ==
  /\ call.op = "MarshalXML"
  /\ Len(call.file) = 2
  /\ \E i, k \in DOMAIN call.file :
       /\ Len(call.file[i].rom) > 0
       /\ NotMatched(call.file[i]) = {}
       /\ Cardinality(NotMatched(call.file[k])) = 1
       /\ Len(call.file[k].rom) = 2
  /\ Cardinality(Emitted(result.out)) = 1

\* C17: a serialisation that follows File.Reset is the output of the File as
\* unmarshalled, whatever was marked before: it has every game that has a
\* ROM, with every ROM.
C17_ResetRestoresOutput ==
  (call.op = "MarshalXML" /\ result.reset) =>
    /\ result.out = FileMarshalXML(result.orig)
    /\ {e.name : e \in Emitted(result.out)}
         = {result.orig[i].name : i \in {i \in DOMAIN result.orig : result.orig[i].rom # <<>>}}
    /\ \A i \in DOMAIN result.orig : result.orig[i].rom # <<>> =>
         \E e \in Emitted(result.out) :
           /\ e.name = result.orig[i].name
           /\ [j \in DOMAIN e.rom |-> e.rom[j].name]
                = [j \in DOMAIN result.orig[i].rom |-> result.orig[i].rom[j].name]

\* C17, its case: ROMs were marked, then File.Reset, and the serialisation
\* has both games of the File again
C17_Witness ==
  /\ call.op = "MarshalXML"
  /\ result.reset
  /\ result.marked
  /\ Cardinality(Emitted(result.out)) = 2

(***************************************************************************)
(* Checksum and header size of one member, by reader and algorithm.        *)
(***************************************************************************)
ChecksumTypes == {"CRC32", "MD5", "SHA1"}

ReaderTypes ==
  {"FileReader", "DirectoryReader", "ZipReader", "TorrentZipReader", "SevenZipReader"}

ChecksumNames == {"g.nes", "l.lnx", "a.bin"}

ChecksumImages == {Image(h, b) : h \in {"none", "nes", "lynx"}, b \in {"p", "q", "x"}}

\* the readers of archives take the CRC32 of the archive's directory (the
\* one of all stored bytes) unless the extension has a checksum function
ReaderChecksum(type, name, c, alg) ==
  IF /\ type \in {"ZipReader", "TorrentZipReader", "SevenZipReader"}
     /\ alg = "CRC32"
     /\ ~needsDirectChecksum(name)
    THEN [alg |-> alg, over |-> c, from |-> "directory"]
    ELSE [alg |-> alg, over |-> checksumFunction(name, c), from |-> "stream"]

InitChecksum ==
  /\ Resting
  /\ fs = NoFiles
  /\ db = newDB
  /\ \E type \in ReaderTypes, name \in ChecksumNames, c \in ChecksumImages,
        alg \in ChecksumTypes :
       call = [op |-> "Checksum", type |-> type, name |-> name, c |-> c, alg |-> alg]
  /\ result = None

\* reader.Checksum(name, alg) and the header size of the member
ChecksumCall ==
  /\ call.op = "Checksum"
  /\ result = None
  /\ result' =
       IF checksumErr(call.name, call.c) \/ headerSizeErr(call.name, call.c)
         THEN [err |-> "EOF"]
         ELSE [err |-> "nil",
               digest |-> ReaderChecksum(call.type, call.name, call.c, call.alg),
               header |-> headerSize(call.name, call.c)]
  /\ UNCHANGED <<resting, fs, db, call>>

NextChecksum == ChecksumCall

SpecChecksum == InitChecksum /\ [][NextChecksum]_vars

\* the magic of the header rule of the extension is there
HasMagic(name, c) ==
  \/ Ext(name) = nesExtension /\ c.hdr = "nes"
  \/ Ext(name) = lynxExtension /\ c.hdr = "lynx"

\* C18: for a .nes or .lnx member with the magic the digest is over the
\* bytes after the header and the header size is the length of the header,
\* without the magic the digest is over all bytes and the header size is 0;
\* the stored size less the header size is the number of bytes hashed.
C18_HeaderLeftOutOfDigest ==
  (call.op = "Checksum" /\ result # None /\ result.err = "nil"
     /\ Ext(call.name) \in {nesExtension, lynxExtension}) =>
    /\ HasMagic(call.name, call.c) =>
         /\ result.digest.over = Image("none", call.c.body)
         /\ result.header = StoredSize(call.c) - BodyLen
         /\ result.header > 0
    /\ ~HasMagic(call.name, call.c) =>
         /\ result.digest.over = call.c
         /\ result.header = 0
    /\ StoredSize(call.c) - result.header = StoredSize(result.digest.over)

(***************************************************************************)
(* NewReader and NewTorrentZipReader over what a path may hold.            *)
(***************************************************************************)
MaxZipEntries == 2

localFileHeaderLength == 30
centralFileDirectoryLength == 46

\* reader.File of a zip archive: name and compressed size of every entry
ZipEntry(name, csize) == [Name |-> name, CompressedSize64 |-> csize]

ZipEntries ==
  UNION {[1..n -> {ZipEntry(name, csize) : name \in {"a", "a.bin"}, csize \in {0, 7}}]
          : n \in 0..MaxZipEntries}

\* the start and the length of the central directory as NewTorrentZipReader
\* works them out
RECURSIVE CentralDirectoryNoData(_)
CentralDirectoryNoData(files) ==
  IF files = <<>> THEN <<0, 0>>
  ELSE LET rest == CentralDirectoryNoData(Tail(files))
           file == Head(files)
       IN <<rest[1] + localFileHeaderLength + Len(file.Name),
            rest[2] + centralFileDirectoryLength + Len(file.Name)>>

RECURSIVE CentralDirectory(_)
CentralDirectory(files) ==
  IF files = <<>> THEN <<0, 0>>
  ELSE LET rest == CentralDirectory(Tail(files))
           file == Head(files)
       IN <<rest[1] + localFileHeaderLength + Len(file.Name) + file.CompressedSize64,
            rest[2] + centralFileDirectoryLength + Len(file.Name)>>

\* the CRC32 of the bytes of the file from socd on, eocd of them: taken as
\* the range (no collisions)
SectionCRC32(range) == [socd |-> range[1], eocd |-> range[2]]

\* fmt.Sprintf("%X", sum)
SprintfX(sum) == [upper |-> TRUE, sum |-> sum]

\* the sum over the entries of fixed + len(name), with the compressed size
\* when data is asked for
RECURSIVE SumOver(_, _, _)
SumOver(files, fixed, data) ==
  IF files = <<>> THEN 0
  ELSE fixed + Len(files[1].Name) + (IF data THEN files[1].CompressedSize64 ELSE 0)
         + SumOver(Tail(files), fixed, data)

\* the archive comments: with or without commentPrefix, followed by the hex
\* digits, upper or lower case, of the CRC32 of the central directory of
\* some archive, or of the bytes that follow its local file headers
ZipComments ==
  {[prefix |-> p, suffix |-> [upper |-> u, sum |-> [socd |-> r[1], eocd |-> r[2]]]] :
     p \in BOOLEAN, u \in BOOLEAN,
     r \in {<<SumOver(files, localFileHeaderLength, data),
              SumOver(files, centralFileDirectoryLength, FALSE)>> :
              files \in ZipEntries, data \in BOOLEAN}}

\* what os.Stat and mimetype.DetectFile find at a path
Contents ==
  {[t |-> k] : k \in {"absent", "dir", "7z", "rar", "other", "badzip"}}
    \cup {[t |-> "zip", File |-> files, Comment |-> c] : files \in ZipEntries, c \in ZipComments}

mimeExtension(f) ==
  CASE f.t = "7z" -> ".7z"
    [] f.t \in {"zip", "badzip"} -> ".zip"
    [] f.t = "rar" -> ".rar"
    [] OTHER -> ""

NewZipReader(path, f) ==
  IF f.t = "absent" THEN [err |-> "notexist"]
  ELSE IF f.t # "zip" THEN [err |-> "zip: not a valid zip file"]
  ELSE [err |-> "nil", type |-> "ZipReader", Name |-> path]

NewTorrentZipReader(path, f) ==
  IF NewZipReader(path, f).err # "nil" THEN NewZipReader(path, f)
  ELSE IF ~f.Comment.prefix THEN [err |-> "ErrNotTorrentZip"]
  ELSE [err |-> "nil", type |-> "TorrentZipReader", Name |-> path,
        valid |-> f.Comment.suffix = SprintfX(SectionCRC32(CentralDirectory(f.File)))]

NewReader(path, f) ==
  IF f.t = "absent" THEN [err |-> "notexist"]
  ELSE IF f.t = "dir" THEN [err |-> "nil", type |-> "DirectoryReader", Name |-> path]
  ELSE CASE mimeExtension(f) = ".7z" ->
              [err |-> "nil", type |-> "SevenZipReader", Name |-> path]
         [] mimeExtension(f) = ".zip" ->
              IF NewTorrentZipReader(path, f).err # "ErrNotTorrentZip"
                THEN NewTorrentZipReader(path, f)
                ELSE NewZipReader(path, f)
         [] OTHER -> [err |-> "nil", type |-> "FileReader", Name |-> path]

OpenPaths == {"test.zip", "test.bin"}

InitOpen ==
  /\ Resting
  /\ fs = NoFiles
  /\ db = newDB
  /\ \E path \in OpenPaths, f \in Contents : call = [op |-> "open", path |-> path, f |-> f]
  /\ result = None

CallNewReader ==
  /\ call.op = "open"
  /\ call' = [call EXCEPT !.op = "NewReader"]
  /\ result' = NewReader(call.path, call.f)
  /\ UNCHANGED <<resting, fs, db>>

CallNewTorrentZipReader ==
  /\ call.op = "open"
  /\ call' = [call EXCEPT !.op = "NewTorrentZipReader"]
  /\ result' = NewTorrentZipReader(call.path, call.f)
  /\ UNCHANGED <<resting, fs, db>>

NextOpen == CallNewReader \/ CallNewTorrentZipReader

SpecOpen == InitOpen /\ [][NextOpen]_vars

\* C19: NewReader gives the error of stat for a path that does not exist, a
\* DirectoryReader for a directory, a SevenZipReader for 7z content, for zip
\* content a TorrentZipReader, or a ZipReader when the archive has no
\* TORRENTZIPPED- comment, or the other error of the open, a RarReader for
\* rar content and a FileReader for the rest; the Name of the reader is the
\* path.
C19_ReaderByContent ==
  call.op = "NewReader" =>
    LET f == call.f
    IN /\ f.t = "absent" => result.err = "notexist"
       /\ f.t = "dir" => result.err = "nil" /\ result.type = "DirectoryReader"
       /\ f.t = "7z" => result.err = "nil" /\ result.type = "SevenZipReader"
       /\ (f.t = "zip" /\ f.Comment.prefix) =>
            result.err = "nil" /\ result.type = "TorrentZipReader"
       /\ (f.t = "zip" /\ ~f.Comment.prefix) =>
            result.err = "nil" /\ result.type = "ZipReader"
       /\ f.t = "badzip" => result.err \notin {"nil", "ErrNotTorrentZip"}
       /\ f.t = "rar" => result.err = "nil" /\ result.type = "RarReader"
       /\ f.t = "other" => result.err = "nil" /\ result.type = "FileReader"
       /\ result.err = "nil" => result.Name = call.path

\* C20: NewTorrentZipReader fails with ErrNotTorrentZip exactly for the
\* archives whose comment lacks TORRENTZIPPED-; for the others it succeeds
\* and Valid() is whether the rest of the comment is the upper case hex of
\* the CRC32 of the bytes from the sum of 30 + len(name) + compressed size
\* on, the sum of 46 + len(name) of them.
C20_ValidIsDirectoryCRC ==
  call.op = "NewTorrentZipReader" =>
    LET f == call.f
    IN /\ result.err = "ErrNotTorrentZip" <=> (f.t = "zip" /\ ~f.Comment.prefix)
       /\ (f.t = "zip" /\ f.Comment.prefix) =>
            /\ result.err = "nil"
            /\ result.valid <=>
                 /\ f.Comment.suffix.upper
                 /\ f.Comment.suffix.sum.socd = SumOver(f.File, 30, TRUE)
                 /\ f.Comment.suffix.sum.eocd = SumOver(f.File, 46, FALSE)

\* C20, its case: an archive of two entries with data whose comment has
\* the CRC32 of its central directory
C20_Witness ==
  /\ call.op = "NewTorrentZipReader"
  /\ call.f.t = "zip"
  /\ Len(call.f.File) = 2
  /\ \A i \in 1..2 : call.f.File[i].CompressedSize64 > 0
  /\ result.err = "nil"
  /\ result.valid


(***************************************************************************)
(* modify() on the targets a directory may hold before a run: next to the  *)
(* archives of Init an archive without members, canonical or not, and a    *)
(* source archive that has no ROM of the catalog.                          *)
(***************************************************************************)
ModifyG1 ==
  InitG1 \cup {TorrentZip(Empty),
               Zip(Empty, FALSE, FALSE),
               TorrentZip("a.bin" :> X)}

ModifyG2 == InitG2 \cup {TorrentZip(Empty)}

ModifyA == InitA \cup {Zip("x.bin" :> X, FALSE, FALSE)}

ModifyFS ==
  {[p \in Paths |->
      IF p = Join(TargetDir, "G1.zip") THEN g1
      ELSE IF p = Join(TargetDir, "G2.zip") THEN g2
      ELSE IF p = Join(SourceDir, "A.zip") THEN a
      ELSE Absent] :
     g1 \in ModifyG1, g2 \in ModifyG2, a \in ModifyA}

InitModify ==
  /\ dryRun \in BOOLEAN
  /\ missing \in MissingLists
  /\ dirs = <<TargetDir, SourceDir>>
  /\ fs \in ModifyFS
  /\ db = newDB
  /\ matched = Unmatched
  /\ phase = "scan"
  /\ run = "first"
  /\ pending = Walk(dirs, fs)
  /\ next = 1
  /\ pc = [w \in Workers |-> "idle"]
  /\ wgame = [w \in Workers |-> 0]
  /\ ri = [w \in Workers |-> 1]
  /\ sources = [w \in Workers |-> Empty]
  /\ rdr = [w \in Workers |-> NoReader]
  /\ wr = [w \in Workers |-> Empty]
  /\ mutex = Unlocked
  /\ tx = 0
  /\ pre = [fs |-> fs, db |-> newDB]
  /\ decided = Undecided
  /\ call = None
  /\ result = None

SpecModify == InitModify /\ [][Next]_vars

\* C21: after an Update that is no dry run, a game whose target was an
\* archive and none of whose ROMs had a source has no target file left and
\* none of its ROMs is matched, whatever the archive was.
C21_UnsourcedTargetRemoved ==
  (phase = "updated" /\ run = "first" /\ ~dryRun) =>
    \A g \in Games :
      (pre.fs[Target(g)].t = "zip" /\ decided[g].done /\ decided[g].roms = {}) =>
        /\ fs[Target(g)] = Absent
        /\ \A i \in DOMAIN Game[g].ROM : ~matched[g][i]


\* the ROMs of game g that have a source in the DB
SourcedROMs(g) ==
  {i \in DOMAIN Game[g].ROM : find(db, romChecksum(Game[g].ROM[i])) # <<>>}

\* the target of g is a valid canonical Zip, every sourced ROM of g has its
\* own member of the target among its sources, and the target has as many
\* members as g has sourced ROMs
TargetInOrder(g) ==
  /\ ValidTorrentZip(fs[Target(g)])
  /\ \A i \in SourcedROMs(g) :
       \E j \in DOMAIN find(db, romChecksum(Game[g].ROM[i])) :
         find(db, romChecksum(Game[g].ROM[i]))[j] =
           source(Target(g), Game[g].ROM[i].Name)
  /\ Cardinality(SourcedROMs(g)) = Cardinality(Members(fs[Target(g)]))

\* the step of worker w in which modify has read the target and chosen
ModifyDecides(w) == pc[w] = "modify" /\ pc'[w] \notin {"modify", "failed"}

\* C22 as claimed: modify returns at once, target and DB as they were,
\* exactly when the target is in order; in every other case with a sourced
\* ROM it goes on to write the archive anew, and what it puts in place of
\* the target is a valid canonical Zip.
C22_VerifyExactlyWhenInOrder ==
  /\ [][\A w \in Workers :
          ModifyDecides(w) =>
            /\ (pc'[w] = "match") <=> TargetInOrder(wgame[w])
            /\ (~TargetInOrder(wgame[w]) /\ SourcedROMs(wgame[w]) # {}) =>
                 pc'[w] = "m_temp"
            /\ fs' = fs /\ db' = db]_vars
  /\ [](\A w \in Workers :
          pc[w] = "m_inval" => ValidTorrentZip(fs[Target(wgame[w])]))

\* C22 as amended: the same, in a run that is no dry run.
C22_VerifyExactlyWhenInOrderNoDryRun ==
  /\ [][\A w \in Workers :
          (ModifyDecides(w) /\ ~dryRun) =>
            /\ (pc'[w] = "match") <=> TargetInOrder(wgame[w])
            /\ (~TargetInOrder(wgame[w]) /\ SourcedROMs(wgame[w]) # {}) =>
                 pc'[w] = "m_temp"
            /\ fs' = fs /\ db' = db]_vars
  /\ [](\A w \in Workers :
          pc[w] = "m_inval" => ValidTorrentZip(fs[Target(wgame[w])]))

\* C22, its case: a valid canonical Zip whose ROM has its own member as a
\* source has been written anew because it had a member too many
C22_Witness ==
  /\ ~dryRun
  /\ \E w \in Workers :
       /\ pc[w] = "m_inval"
       /\ rdr[w].valid
       /\ Cardinality(rdr[w].Files) > Cardinality(DOMAIN sources[w])
       /\ \A n \in DOMAIN sources[w] :
            sources[w][n] = <<source(rdr[w].Name, n)>>
       /\ Members(fs[rdr[w].Name]) = DOMAIN sources[w]


\* the step of worker w in which transfer has copied every member
Transferred(w) ==
  /\ pc[w] \in {"c_transfer", "m_transfer"}
  /\ pc'[w] \in {"c_close", "m_close"}

\* C23: transfer writes one member for every ROM of the game that had a
\* source when create or modify looked it up, under the name of the ROM and
\* with the very bytes of one of these sources, and no other member; and
\* the archive then put at the target path has these members.
C23_WrittenFromSources ==
  /\ [][\A w \in Workers :
          Transferred(w) =>
            /\ DOMAIN wr'[w] = decided[wgame[w]].roms
            /\ DOMAIN wr'[w] = DOMAIN sources[w]
            /\ \A n \in DOMAIN wr'[w] :
                 \E i \in DOMAIN sources[w][n] :
                   LET s == sources[w][n][i] IN
                     /\ s.File \in Files(s.Name, fs[s.Name])
                     /\ wr'[w][n] = ReaderMembers(s.Name, fs[s.Name])[s.File]]_vars
  /\ [](\A w \in Workers :
          pc[w] \in {"c_scan", "m_inval", "m_scan"} =>
            /\ fs[Target(wgame[w])].t = "zip"
            /\ fs[Target(wgame[w])].mem = wr[w]
            /\ DOMAIN wr[w] = decided[wgame[w]].roms)

\* C23, its case: modify has put in place an archive without a member of
\* the old one and without the ROM of the game that had no source
C23_Witness ==
  \E w \in Workers :
    /\ pc[w] = "m_inval"
    /\ Members(fs[rdr[w].Name]) # {}
    /\ rdr[w].Files \ Members(fs[rdr[w].Name]) # {}
    /\ RomNames(wgame[w]) \ Members(fs[rdr[w].Name]) # {}


\* C24: when create or modify returns after db.scan of the archive it has
\* written, the sources of every ROM it has written hold the member of that
\* name of the target.
C24_WrittenMemberIndexed ==
  [][\A w \in Workers :
       (pc[w] \in {"c_scan", "m_scan"} /\ pc'[w] = "match") =>
         \A i \in DOMAIN Game[wgame[w]].ROM :
           LET r == Game[wgame[w]].ROM[i] IN
             r.Name \in DOMAIN wr[w] =>
               \E j \in DOMAIN find(db', romChecksum(r)) :
                 find(db', romChecksum(r))[j] = source(Target(wgame[w]), r.Name)]_vars


(***************************************************************************)
(* The goroutines of Scan and of Update with what flows through them: the  *)
(* paths from the walks through the merge to the scan workers, the games   *)
(* from allGames to the game workers.  The error channels, mergeErrors and *)
(* waitForPipeline are those above.  A file or a game of call.bad makes    *)
(* the worker that has it send an error.                                   *)
(***************************************************************************)
FlowDirs == 2

FlowFiles == 2

FlowGames == 6

FlowWorkers == 2

\* the goroutines with an error channel
FlowStages(op, workers) ==
  IF op = "Update"
    THEN {<<"allGames", 1>>} \cup {<<"gameWorker", w>> : w \in 1..workers}
    ELSE {<<"findFiles", i>> : i \in 1..FlowDirs}
           \cup {<<"mergeFiles", 1>>} \cup {<<"scanFiles", w>> : w \in 1..workers}

\* the k-th path of the walk of directory i, the k-th game of the datfile
FlowItems(n) == UNION {{<<i, k>> : k \in 1..n[i]} : i \in DOMAIN n}

\* what Scan walks and what Update is given
FlowCalls ==
  {[op |-> "Scan", workers |-> w, n |-> n, bad |-> b] :
     w \in 1..FlowWorkers, n \in [1..FlowDirs -> 0..FlowFiles],
     b \in {{}, {<<1, 1>>}}}
  \cup
  {[op |-> "Update", workers |-> w, n |-> n, bad |-> b] :
     w \in 1..FlowWorkers, n \in [{1} -> 0..FlowGames],
     b \in {{}, {<<1, 1>>}, {<<1, 1>>, <<1, 2>>}}}

InitFlow ==
  /\ Resting
  /\ fs = NoFiles
  /\ db = newDB
  /\ call \in FlowCalls
  /\ result = [stage |-> [s \in FlowStages(call.op, call.workers) |-> "run"],
               errc |-> [s \in FlowStages(call.op, call.workers) |-> <<>>],
               fwd |-> [s \in FlowStages(call.op, call.workers) |-> <<"recv">>],
               out |-> <<>>,
               closed |-> FALSE,
               ret |-> "pending",
               next |-> [i \in DOMAIN call.n |-> 1],
               cancel |-> FALSE,
               mrg |-> [i \in DOMAIN call.n |->
                          IF call.op = "Scan" THEN <<"recv">> ELSE <<"done">>],
               wk |-> [w \in 1..call.workers |-> <<"recv">>],
               got |-> [x \in FlowItems(call.n) |-> 0],
               done |-> [x \in FlowItems(call.n) |-> 0]]

\* findFiles, the goroutine of directory i: the send of a path to the
\* goroutine of mergeFiles that ranges over its channel; the return of the
\* walk on ctx.Done(); the end of the walk.  The result of filepath.Walk
\* goes to errc, then both channels are closed.
FindFilesStep(i) ==
  /\ call.op = "Scan"
  /\ result.stage[<<"findFiles", i>>] = "run"
  /\ \/ /\ result.next[i] <= call.n[i]
        /\ result.mrg[i] = <<"recv">>
        /\ result' = [result EXCEPT !.mrg[i] = <<"send", <<i, result.next[i]>>>>,
                                    !.next[i] = @ + 1]
     \/ /\ result.next[i] <= call.n[i]
        /\ ctxDone(result)
        /\ result' = [result EXCEPT
                        !.errc[<<"findFiles", i>>] = Append(@, "walk cancelled"),
                        !.stage[<<"findFiles", i>>] = "closed"]
     \/ /\ result.next[i] > call.n[i]
        /\ result' = [result EXCEPT
                        !.errc[<<"findFiles", i>>] = Append(@, "nil"),
                        !.stage[<<"findFiles", i>>] = "closed"]
  /\ UNCHANGED <<resting, fs, db, call>>

\* mergeFiles with a default case in its select: the goroutine drops the
\* path it holds when no worker is ready to receive it
MergeFilesStepDropping(i) ==
  /\ call.op = "Scan"
  /\ \/ /\ result.mrg[i][1] = "send"
        /\ \E w \in 1..call.workers :
             /\ result.wk[w] = <<"recv">>
             /\ result' = [result EXCEPT !.wk[w] = <<"work", result.mrg[i][2]>>,
                                         !.got[result.mrg[i][2]] = @ + 1,
                                         !.mrg[i] = <<"recv">>]
     \/ /\ result.mrg[i][1] = "send"
        /\ \A w \in 1..call.workers : result.wk[w] # <<"recv">>
        /\ result' = [result EXCEPT !.mrg[i] = <<"recv">>]
     \/ /\ result.mrg[i][1] = "send"
        /\ ctxDone(result)
        /\ result' = [result EXCEPT !.mrg[i] = <<"done">>]
     \/ /\ result.mrg[i] = <<"recv">>
        /\ result.stage[<<"findFiles", i>>] = "closed"
        /\ result' = [result EXCEPT !.mrg[i] = <<"done">>]
  /\ UNCHANGED <<resting, fs, db, call>>

\* mergeFiles, the goroutine of channel i: the send of the path it holds to
\* a scan worker; its return on ctx.Done(); the end of its range
MergeFilesStep(i) ==
  /\ call.op = "Scan"
  /\ \/ /\ result.mrg[i][1] = "send"
        /\ \E w \in 1..call.workers :
             /\ result.wk[w] = <<"recv">>
             /\ result' = [result EXCEPT !.wk[w] = <<"work", result.mrg[i][2]>>,
                                         !.got[result.mrg[i][2]] = @ + 1,
                                         !.mrg[i] = <<"recv">>]
     \/ /\ result.mrg[i][1] = "send"
        /\ ctxDone(result)
        /\ result' = [result EXCEPT !.mrg[i] = <<"done">>]
     \/ /\ result.mrg[i] = <<"recv">>
        /\ result.stage[<<"findFiles", i>>] = "closed"
        /\ result' = [result EXCEPT !.mrg[i] = <<"done">>]
  /\ UNCHANGED <<resting, fs, db, call>>

\* mergeFiles: wg.Wait(), close(out), close(errc)
MergeFilesClose ==
  /\ call.op = "Scan"
  /\ result.stage[<<"mergeFiles", 1>>] = "run"
  /\ \A i \in DOMAIN result.mrg : result.mrg[i] = <<"done">>
  /\ result' = [result EXCEPT !.stage[<<"mergeFiles", 1>>] = "closed"]
  /\ UNCHANGED <<resting, fs, db, call>>

\* scanFiles, worker w: NewReader and db.scan on the path it has, with the
\* return on an error; the end of its range
ScanFilesStep(w) ==
  /\ call.op = "Scan"
  /\ w \in DOMAIN result.wk
  /\ \/ /\ result.wk[w][1] = "work"
        /\ result' =
             IF result.wk[w][2] \in call.bad
               THEN [result EXCEPT
                       !.errc[<<"scanFiles", w>>] = Append(@, "error"),
                       !.stage[<<"scanFiles", w>>] = "closed",
                       !.wk[w] = <<"done">>]
               ELSE [result EXCEPT !.done[result.wk[w][2]] = @ + 1,
                                   !.wk[w] = <<"recv">>]
     \/ /\ result.wk[w] = <<"recv">>
        /\ result.stage[<<"mergeFiles", 1>>] = "closed"
        /\ result' = [result EXCEPT !.stage[<<"scanFiles", w>>] = "closed",
                                    !.wk[w] = <<"done">>]
  /\ UNCHANGED <<resting, fs, db, call>>

\* allGames: the select that sends the game to a worker or finds ctx.Done();
\* the send of "cancelled", after which the loop goes on with the next game;
\* the end of the loop
AllGamesStep ==
  /\ call.op = "Update"
  /\ result.stage[<<"allGames", 1>>] = "run"
  /\ \/ /\ ~result.cancel
        /\ result.next[1] <= call.n[1]
        /\ \E w \in 1..call.workers :
             /\ result.wk[w] = <<"recv">>
             /\ result' = [result EXCEPT !.wk[w] = <<"work", <<1, result.next[1]>>>>,
                                         !.got[<<1, result.next[1]>>] = @ + 1,
                                         !.next[1] = @ + 1]
     \/ /\ ~result.cancel
        /\ result.next[1] <= call.n[1]
        /\ ctxDone(result)
        /\ result' = [result EXCEPT !.cancel = TRUE]
     \/ /\ result.cancel
        /\ Len(result.errc[<<"allGames", 1>>]) < 1
        /\ result' = [result EXCEPT
                        !.errc[<<"allGames", 1>>] = Append(@, "cancelled"),
                        !.next[1] = @ + 1,
                        !.cancel = FALSE]
     \/ /\ ~result.cancel
        /\ result.next[1] > call.n[1]
        /\ result' = [result EXCEPT !.stage[<<"allGames", 1>>] = "closed"]
  /\ UNCHANGED <<resting, fs, db, call>>

\* gameWorker, worker w: create or modify and the match of the game it has,
\* with the return on an error; the end of its range
GameWorkerStep(w) ==
  /\ call.op = "Update"
  /\ w \in DOMAIN result.wk
  /\ \/ /\ result.wk[w][1] = "work"
        /\ result' =
             IF result.wk[w][2] \in call.bad
               THEN [result EXCEPT
                       !.errc[<<"gameWorker", w>>] = Append(@, "error"),
                       !.stage[<<"gameWorker", w>>] = "closed",
                       !.wk[w] = <<"done">>]
               ELSE [result EXCEPT !.done[result.wk[w][2]] = @ + 1,
                                   !.wk[w] = <<"recv">>]
     \/ /\ result.wk[w] = <<"recv">>
        /\ result.stage[<<"allGames", 1>>] = "closed"
        /\ result' = [result EXCEPT !.stage[<<"gameWorker", w>>] = "closed",
                                    !.wk[w] = <<"done">>]
  /\ UNCHANGED <<resting, fs, db, call>>

NextFlow ==
  \/ \E i \in 1..FlowDirs : FindFilesStep(i) \/ MergeFilesStep(i)
  \/ MergeFilesClose
  \/ \E w \in 1..FlowWorkers : ScanFilesStep(w) \/ GameWorkerStep(w)
  \/ AllGamesStep
  \/ \E s \in DOMAIN result.stage : MergeReceive(s) \/ MergeSend(s)
  \/ MergeClose
  \/ WaitReceive
  \/ WaitEnd

SpecFlow == InitFlow /\ [][NextFlow]_vars

\* the scheduler of Go runs a goroutine that can take a step
FairSpecFlow == SpecFlow /\ WF_vars(NextFlow)

\* every goroutine has returned and every channel is closed
FlowOver ==
  /\ \A s \in DOMAIN result.stage : result.stage[s] = "closed"
  /\ \A s \in DOMAIN result.fwd : result.fwd[s] = <<"done">>
  /\ \A i \in DOMAIN result.mrg : result.mrg[i] = <<"done">>
  /\ result.closed

\* C25: when Scan or Update has returned the error of a worker, in the end
\* every goroutine has returned and every channel is closed.
C25_CancelledStagesEnd ==
  (result.ret = "error") ~> FlowOver


\* C26: once Update has returned an error, no worker receives a game and no
\* worker brings create, modify or the match of a game to its end.
C26_NothingAfterError ==
  [][(call.op = "Update" /\ result.ret = "error") =>
       /\ result'.got = result.got
       /\ result'.done = result.done]_vars


\* C27: when no file and no game makes a worker fail, Scan and Update
\* return in the end; when they return nil every goroutine has returned and
\* every channel is closed; and after the return no worker takes a path or
\* a game or ends the scan of a path or the work on a game.
C27_ReturnsAfterAllStages ==
  /\ (call.op \in {"Scan", "Update"} /\ call.bad = {}) ~> (result.ret = "nil")
  /\ []((call.op \in {"Scan", "Update"} /\ result.ret = "nil") => FlowOver)
  /\ [][(call.op \in {"Scan", "Update"} /\ result.ret = "nil") =>
          /\ result'.got = result.got
          /\ result'.done = result.done]_vars

\* C27, its case: Scan has returned nil with two workers and a path from
\* each of two walks scanned
C27_Witness ==
  /\ call.op = "Scan"
  /\ call.workers > 1
  /\ result.ret = "nil"
  /\ Cardinality({i \in DOMAIN call.n : call.n[i] > 0}) > 1
  /\ \A x \in DOMAIN result.done : result.done[x] = 1


\* C28: when Scan has returned nil, every path of every walk has been
\* received by a scan worker once and scanned once; and at no time has a
\* path been received or scanned twice.
C28_EveryPathScannedOnce ==
  call.op = "Scan" =>
    /\ \A x \in DOMAIN result.got :
         result.got[x] <= 1 /\ result.done[x] <= result.got[x]
    /\ result.ret = "nil" =>
         \A x \in DOMAIN result.got : result.got[x] = 1 /\ result.done[x] = 1

\* C28, its case: Scan has returned nil after walks that all had the most
\* paths, with one worker that had to take them all
C28_Witness ==
  /\ call.op = "Scan"
  /\ result.ret = "nil"
  /\ call.workers = 1
  /\ \A i \in DOMAIN call.n : call.n[i] = FlowFiles


\* the step of worker w in which create or modify calls db.find
Lookup(w) ==
  \/ pc[w] = "create" /\ ri'[w] # ri[w]
  \/ pc[w] = "modify" /\ pc'[w] # "modify"

\* C29: no worker calls db.find while another worker is in modify between
\* db.invalidate of the target and db.scan of the new archive, nor at any
\* other point of modify from its lookups to its return.
C29_NoLookupDuringReplace ==
  [][\A w \in Workers :
       Lookup(w) =>
         \A v \in Workers \ {w} :
           pc[v] \notin {"m_delete", "m_temp", "m_transfer", "m_abort",
                         "m_close", "m_rename", "m_inval", "m_scan"}]_vars

\* C29, its case: a worker is between db.invalidate and db.scan while
\* another worker has a game and has not yet looked up its ROMs
C29_Witness ==
  \E v, w \in Workers :
    /\ v # w
    /\ pc[v] = "m_scan"
    /\ pc[w] \in {"create", "modify"}
    /\ pc[w] = "create" => ri[w] = 1

\* C30: while create writes the members and closes the writer it does not
\* hold the read lock of s.mutex.
C30_CreateUnlockedDuringIO ==
  \A w \in Workers :
    pc[w] \in {"c_transfer", "c_close"} => w \notin mutex.readers


(***************************************************************************)
(* The DB under calls of several goroutines: db.mutex, and scan one member *)
(* after the other while it holds it.  result.at is where each caller is.  *)
(***************************************************************************)
\* the archives that are scanned: one of them has a member g.nes with no
\* bytes, whose checksum ends in the error of io.CopyN
LockFiles ==
  {[p \in Paths |->
      IF p = Join(SourceDir, "A.zip") THEN a
      ELSE IF p = Join(TargetDir, "G1.zip") THEN TorrentZip(("a.bin" :> P) @@ ("b.bin" :> Q))
      ELSE Absent] :
     a \in {Zip(("a.bin" :> P) @@ ("g.nes" :> Z), FALSE, FALSE),
            Zip(("x.bin" :> P) @@ ("h.bin" :> NP), FALSE, FALSE)}}

InitLock ==
  /\ Resting
  /\ fs \in LockFiles
  /\ db = newDB
  /\ call = [op |-> "DB"]
  /\ result = [mutex |-> 0,
               at |-> [w \in Workers |-> <<"idle">>],
               err |-> {},
               found |-> <<>>]

\* db.scan(reader, t) by goroutine w: db.mutex.Lock(); one round of the
\* loop, with the return of the error of reader.Checksum; the return after
\* the last member.  Each return runs the deferred db.mutex.Unlock().
ScanCall(w) ==
  /\ call.op = "DB"
  /\ \/ /\ result.at[w] = <<"idle">>
        /\ result.mutex = 0
        /\ \E p \in Paths :
             /\ NewReaderErr(fs[p]) = "ok"
             /\ NumSources(db) + Cardinality(Files(p, fs[p])) <= MaxSources
             /\ \E o \in Orders(Files(p, fs[p])) :
                  result' = [result EXCEPT !.mutex = w,
                                           !.at[w] = <<"scan", p, o>>]
        /\ db' = db
     \/ /\ result.at[w][1] = "scan"
        /\ result.at[w][3] # <<>>
        /\ LET p == result.at[w][2]
               file == Head(result.at[w][3])
               c == ReaderMembers(p, fs[p])[file]
           IN IF checksumErr(file, c)
                THEN /\ db' = db
                     /\ result' = [result EXCEPT !.mutex = 0,
                                                 !.at[w] = <<"idle">>,
                                                 !.err = @ \cup {p}]
                ELSE /\ db' = scanAppend(db, p, file, c)
                     /\ result' = [result EXCEPT
                                     !.at[w] = <<"scan", p, Tail(result.at[w][3])>>]
     \/ /\ result.at[w][1] = "scan"
        /\ result.at[w][3] = <<>>
        /\ db' = db
        /\ result' = [result EXCEPT !.mutex = 0, !.at[w] = <<"idle">>]
  /\ UNCHANGED <<resting, fs, call>>

\* db.find(checksum) by goroutine w, under db.mutex
FindCall(w) ==
  /\ call.op = "DB"
  /\ result.at[w] = <<"idle">>
  /\ result.mutex = 0
  /\ \E g \in Games : \E i \in DOMAIN Game[g].ROM :
       result' = [result EXCEPT !.found = find(db, romChecksum(Game[g].ROM[i]))]
  /\ UNCHANGED <<resting, fs, db, call>>

\* db.invalidate(name) by goroutine w, under db.mutex
InvalidateCall(w) ==
  /\ call.op = "DB"
  /\ result.at[w] = <<"idle">>
  /\ result.mutex = 0
  /\ \E p \in Paths : fs[p] # Absent /\ db' = invalidate(db, p)
  /\ UNCHANGED <<resting, fs, call, result>>

NextLock ==
  \E w \in Workers : ScanCall(w) \/ FindCall(w) \/ InvalidateCall(w)

SpecLock == InitLock /\ [][NextLock]_vars

\* how often the DB d lists member file of archive path
RefCount(d, path, file) ==
  Cardinality({<<k, i>> \in UNION {{<<k, i>> : i \in DOMAIN d[k]} : k \in DOMAIN d} :
                 d[k][i] = source(path, file)})

\* C31: whenever db.mutex is free, and so in every state a find, scan or
\* invalidate of another goroutine starts from, the DB lists all members of
\* an archive equally often: none of them, or all of them from each scan.
C31_ScanAllOrNothing ==
  (call.op = "DB" /\ result.mutex = 0) =>
    \A p \in Paths : \A f, g \in Files(p, fs[p]) :
      RefCount(db, p, f) = RefCount(db, p, g)


\* C32: a reader of a Zip or 7z archive returns the CRC32 of the archive's
\* directory only for CRC32 and a member whose extension has no header
\* rule; for a .nes or .lnx member the CRC32 is computed from the stream of
\* the member, over the bytes the header rule leaves, as MD5 and SHA1 are
\* for every member.
C32_DirectoryCRCOnlyWithoutHeaderRule ==
  (call.op = "Checksum" /\ result # None /\ result.err = "nil"
     /\ call.type \in {"ZipReader", "TorrentZipReader", "SevenZipReader"}) =>
    /\ result.digest.from = "directory" =>
         call.alg = "CRC32" /\ ~hasHeader(call.name)
    /\ (hasHeader(call.name) \/ call.alg # "CRC32") =>
         /\ result.digest.from = "stream"
         /\ result.digest.over =
              IF HasMagic(call.name, call.c)
                THEN Image("none", call.c.body) ELSE call.c


(***************************************************************************)
(* The copy loop of transfer, one step per statement that acquires or      *)
(* releases something: the readers of the source archives, the member      *)
(* streams of the readers and of the writer, and the files the readers     *)
(* hold open.                                                              *)
(***************************************************************************)
MaxCopyRoms == 3   \* the ROMs of the game that is copied

CopyRoms == [i \in 1..MaxCopyRoms |-> <<"a.bin", "b.bin", "c.bin", "d.bin">>[i]]

\* S/A.zip carries the torrentzip comment, S/B.zip is a plain Zip archive
CopyArchives == {"S/A.zip", "S/B.zip"}
IsTorrentZip(name) == name = "S/A.zip"

CopyRefs == {source(n, f) : n \in CopyArchives, f \in {"x.bin", "y.bin"}}

\* the statement of the loop that returns an error and the ROM at which it
\* does, if it is reached
CopyFaults ==
  {<<"none", 0>>} \cup
    ({"NewReader", "Open", "Create", "Copy"} \X (1..MaxCopyRoms))

\* sources after the selection: one source for some of the ROMs
CopySources ==
  UNION {[{CopyRoms[i] : i \in I} -> CopyRefs] : I \in SUBSET (1..MaxCopyRoms)}

InitCopy ==
  /\ Resting
  /\ fs = NoFiles
  /\ db = newDB
  /\ \E sel \in CopySources, bad \in CopyFaults :
       call = [op |-> "copy", sources |-> sel, bad |-> bad]
  /\ result = [i |-> 1, at |-> "loop", opened |-> <<>>, readers |-> {},
               files |-> 0, rr |-> 0, rw |-> 0, copied |-> <<>>, ret |-> ""]

\* reader, ok := readers[src.Name], without a lookup
cachedNever(readers, name) == FALSE

\* reader, ok := readers[src.Name]
cached(readers, name) == \E i \in DOMAIN readers : readers[i] = name

\* the files NewReader leaves open when it returns a reader of the archive:
\* NewTorrentZipReader opens the archive through NewZipReader and returns
\* ErrNotTorrentZip for a plain Zip without closing it, then NewZipReader
\* opens the archive again
filesOfNewReader(name) == IF IsTorrentZip(name) THEN 1 ELSE 2

\* a return of transfer: the deferred Close of every reader and of the
\* member streams runs
returned(r, err) ==
  [r EXCEPT !.ret = err, !.rr = 0, !.rw = 0, !.readers = {},
            !.files = r.files - Cardinality(r.readers)]

\* the head of the loop up to reader.Open(src.File)
CopyOpen ==
  /\ call.op = "copy" /\ result.ret = "" /\ result.at = "loop"
  /\ result.i <= MaxCopyRoms
  /\ LET name == CopyRoms[result.i]
         src == call.sources[name]
         hit == cached(result.opened, src.Name)
         r == IF hit THEN result
              ELSE [result EXCEPT !.opened = Append(@, src.Name),
                                  !.readers = @ \cup {Len(result.opened) + 1},
                                  !.files = @ + filesOfNewReader(src.Name)]
     IN IF name \notin DOMAIN call.sources
          THEN result' = [result EXCEPT !.i = @ + 1]
        ELSE IF ~hit /\ call.bad = <<"NewReader", result.i>>
          THEN result' = returned(result, "error")
        ELSE IF call.bad = <<"Open", result.i>>
          THEN result' = returned(r, "error")
        ELSE result' = [r EXCEPT !.rr = @ + 1, !.at = "opened"]
  /\ UNCHANGED <<resting, fs, db, call>>

\* writer.Create(r.Name)
CopyCreate ==
  /\ call.op = "copy" /\ result.ret = "" /\ result.at = "opened"
  /\ result' = IF call.bad = <<"Create", result.i>>
                 THEN returned(result, "error")
                 ELSE [result EXCEPT !.rw = @ + 1, !.at = "created"]
  /\ UNCHANGED <<resting, fs, db, call>>

\* io.Copy(rw, rr), rw.Close() and rr.Close()
CopyData ==
  /\ call.op = "copy" /\ result.ret = "" /\ result.at = "created"
  /\ result' = IF call.bad = <<"Copy", result.i>>
                 THEN returned(result, "error")
                 ELSE [result EXCEPT !.copied = Append(@, result.i),
                                     !.rw = @ - 1, !.rr = @ - 1,
                                     !.at = "loop", !.i = @ + 1]
  /\ UNCHANGED <<resting, fs, db, call>>

\* after the last ROM: every reader is closed and transfer returns nil
CopyEnd ==
  /\ call.op = "copy" /\ result.ret = "" /\ result.at = "loop"
  /\ result.i > MaxCopyRoms
  /\ result' = returned(result, "nil")
  /\ UNCHANGED <<resting, fs, db, call>>

NextCopy == CopyOpen \/ CopyCreate \/ CopyData \/ CopyEnd

SpecCopy == InitCopy /\ [][NextCopy]_vars

\* the archives of the selection
SelectedArchives == {call.sources[n].Name : n \in DOMAIN call.sources}

\* C33: transfer opens at most one reader of an archive, one of every
\* archive of the selection when it returns nil, however many ROMs come
\* from it; the ROMs are copied in the order of the catalog; at most one
\* member stream of the writer is open at any time; when transfer returns,
\* with nil or with an error, every reader it opened is closed.
C33_OneReaderPerArchive ==
  call.op = "copy" =>
    /\ \A j, k \in DOMAIN result.opened :
         j # k => result.opened[j] # result.opened[k]
    /\ \A j, k \in DOMAIN result.copied :
         j < k => result.copied[j] < result.copied[k]
    /\ result.rw <= 1
    /\ result.ret # "" => result.readers = {}
    /\ result.ret = "nil" =>
         /\ {result.opened[j] : j \in DOMAIN result.opened} = SelectedArchives
         /\ {CopyRoms[result.copied[j]] : j \in DOMAIN result.copied}
              = DOMAIN call.sources

\* transfer has returned nil after copying two ROMs from one archive and a
\* third from another
C33_Witness ==
  /\ call.op = "copy" /\ result.ret = "nil"
  /\ Len(result.copied) = 3 /\ Len(result.opened) = 2

\* transfer has returned an error with two readers opened
C33_WitnessError ==
  /\ call.op = "copy" /\ result.ret = "error"
  /\ Len(result.opened) = 2 /\ Len(result.copied) >= 1

\* C34: when transfer returns, with nil or with an error, no file, reader
\* or member stream it acquired is still open, also when a reader was
\* opened for a plain Zip archive after ErrNotTorrentZip.
C34_EverythingReleased ==
  (call.op = "copy" /\ result.ret # "") =>
    /\ result.readers = {}
    /\ result.rr = 0 /\ result.rw = 0
    /\ result.files = 0


(***************************************************************************)
(* The loop of transfer that reduces the sources, on lists in which an     *)
(* archive may offer more than one member for a ROM.                       *)
(***************************************************************************)
\* archive A holds the same bytes under two names, B and C under one
PickRefs == {source("A", "m"), source("A", "n"), source("B", "m"), source("C", "m")}

\* the sources db.find lists for one ROM: one source, or two, the two
\* members of A in either order
PickLists ==
  {<<a>> : a \in PickRefs}
    \cup {<<source("A", "m"), source("A", "n")>>, <<source("A", "n"), source("A", "m")>>,
          <<source("B", "m"), source("C", "m")>>}
    \cup {<<a, b>> : a \in {source("A", "m"), source("A", "n")},
                     b \in {source("B", "m"), source("C", "m")}}

InitPick ==
  /\ Resting
  /\ fs = NoFiles
  /\ db = newDB
  /\ \E s \in [SelRoms -> PickLists] :
       /\ call = [op |-> "transfer", sources |-> s]
       /\ result = [sources |-> s, done |-> FALSE]

SpecPick == InitPick /\ [][NextSelect]_vars

\* the loop is one goroutine's for statement: it takes its next step
\* whenever it has one
FairSpecPick == SpecPick /\ WF_vars(NextSelect)

\* C35: the loop of transfer that reduces the sources ends, and when it has
\* ended every ROM of sources has one source, which is one of the sources
\* the ROM had when transfer was called.
C35_SelectionEnds ==
  /\ <>(call.op = "transfer" /\ result.done)
  /\ [](result.done =>
          \A k \in DOMAIN call.sources :
            /\ Len(result.sources[k]) = 1
            /\ \E i \in DOMAIN call.sources[k] :
                 result.sources[k][1] = call.sources[k][i])

\* the loop has ended after more than one round
C35_Witness ==
  /\ call.op = "transfer" /\ result.done
  /\ Cardinality(Chosen(result.sources)) > 1
  /\ \A k \in DOMAIN call.sources : Len(call.sources[k]) > 1

\* the ROMs with more than one source that have a source in the archive
ROMsOffering(srcs, name) ==
  {k \in DOMAIN srcs :
     Len(srcs[k]) > 1 /\ \E i \in DOMAIN srcs[k] : srcs[k][i].Name = name}

\* C36: a round of the loop cuts the lists down to an archive that is in
\* the lists of the largest number of ROMs with more than one source, a ROM
\* counted once however many members the archive offers for it, and every
\* such ROM with the archive in its list is left with one source of it.
C36_WinnerInMostROMs ==
  [][(call.op = "transfer" /\ result'.sources # result.sources) =>
       \E n \in Archives(result.sources) :
         /\ \A o \in Archives(result.sources) :
              Cardinality(ROMsOffering(result.sources, o))
                <= Cardinality(ROMsOffering(result.sources, n))
         /\ \A k \in DOMAIN result.sources :
              IF k \in ROMsOffering(result.sources, n)
                THEN /\ Len(result'.sources[k]) = 1
                     /\ result'.sources[k][1].Name = n
                ELSE result'.sources[k] = result.sources[k]]_vars

\* C38: the loop of transfer ends with the same source for every ROM
\* whenever it is run on the same sources.
C38_SelectionDetermined ==
  (call.op = "transfer" /\ result.done) =>
    Reduce(call.sources) = {result.sources}


(***************************************************************************)
(* findFiles: filepath.Walk over a directory, one step for every call of   *)
(* the walk function.  A path is the sequence of its names.                *)
(***************************************************************************)
\* the names of a directory in the order filepath.Walk reads them
WalkOrder == <<"._a.zip", ".hid", "a.zip">>

WalkNames == {WalkOrder[i] : i \in DOMAIN WalkOrder}

WalkRoots == {"roms", ".roms"}

\* the directory dir: what is under each name at the top, and what is under
\* each name in every directory below the top
InitWalk ==
  /\ Resting
  /\ fs = NoFiles
  /\ db = newDB
  /\ \E dir \in WalkRoots,
        top \in [WalkNames -> {"absent", "file", "dir", "link"}],
        sub \in [WalkNames -> {"absent", "file"}] :
       call = [op |-> "findFiles", dir |-> dir, top |-> top, sub |-> sub]
  /\ result = [todo |-> <<<<call.dir>>>>, out |-> <<>>, errc |-> <<>>]

\* info.Mode() of a path
modeOf(p) ==
  IF Len(p) = 1 THEN "dir"
  ELSE IF Len(p) = 2 THEN call.top[p[2]]
  ELSE call.sub[p[3]]

\* the entries of the directory p in the order of the walk
entriesOf(p) ==
  LET in == IF Len(p) = 1 THEN call.top ELSE call.sub
      has(n) == in[n] # "absent"
      names == SelectSeq(WalkOrder, has)
  IN [i \in DOMAIN names |-> Append(p, names[i])]

\* one call of the walk function, and what Walk does with its return
WalkVisit ==
  /\ call.op = "findFiles"
  /\ result.todo # <<>>
  /\ LET p == Head(result.todo)
         name == p[Len(p)]
         mode == modeOf(p)
     IN IF Hidden(name) /\ (mode = "dir" \/ name = "._a.zip")
          THEN result' = [result EXCEPT !.todo = Tail(@)]
        ELSE IF mode # "file"
          THEN result' = [result EXCEPT !.todo =
                            (IF mode = "dir" THEN entriesOf(p) ELSE <<>>) \o Tail(@)]
        ELSE result' = [result EXCEPT !.todo = Tail(@), !.out = Append(@, p)]
  /\ UNCHANGED <<resting, fs, db, call>>

\* Walk returns nil, which is sent on errc
WalkEnd ==
  /\ call.op = "findFiles"
  /\ result.todo = <<>> /\ result.errc = <<>>
  /\ result' = [result EXCEPT !.errc = <<"nil">>]
  /\ UNCHANGED <<resting, fs, db, call>>

NextWalk == WalkVisit \/ WalkEnd

SpecWalk == InitWalk /\ [][NextWalk]_vars

\* the paths under dir
WalkPaths ==
  {<<call.dir, n>> : n \in {m \in WalkNames : call.top[m] # "absent"}}
    \cup {<<call.dir, d, n>> : d \in {m \in WalkNames : call.top[m] = "dir"},
                               n \in {m \in WalkNames : call.sub[m] # "absent"}}

\* C37: when the walk of findFiles(dir) has ended, the paths sent are, each
\* once, the regular files under dir whose name does not begin with a dot
\* and that are in no directory under dir whose name begins with a dot,
\* whatever the name of dir itself.
C37_FindFilesEmitsVisibleFiles ==
  (call.op = "findFiles" /\ result.errc # <<>>) =>
    /\ \A i, j \in DOMAIN result.out : i # j => result.out[i] # result.out[j]
    /\ {result.out[i] : i \in DOMAIN result.out} =
         {p \in WalkPaths :
            /\ modeOf(p) = "file"
            /\ \A i \in 2..Len(p) : ~Hidden(p[i])}


(***************************************************************************)
(* The outcome of Update and the order in which the workers take the       *)
(* games.                                                                  *)
(***************************************************************************)
\* Update has returned: nil, or the error of a worker
UpdateOver ==
  \/ phase = "updated"
  \/ phase = "failed" /\ \E w \in Workers : pc[w] = "failed"

\* the ROMs of game g with a source in the index when Update starts
SourcedAtStart(g) ==
  {i \in DOMAIN Game[g].ROM : find(pre.db, romChecksum(Game[g].ROM[i])) # <<>>}

\* C39: Update ends the same way in every order and interleaving of the
\* workers, so as it ends when one worker takes the games in the order of
\* the catalog: the first game, when it has no archive yet, is created from
\* the sources the index has when Update starts, Update returns nil, and
\* the members of its archive and its matched flags are the ROMs that had
\* a source then, also when the source is a member of another game's
\* archive.
C39_OutcomeIndependentOfOrder ==
  (UpdateOver /\ ~dryRun /\ ~Skipped(Game[1].Name)
     /\ pre.fs[Target(1)] = Absent) =>
    /\ phase = "updated"
    /\ \A i \in DOMAIN Game[1].ROM : matched[1][i] <=> i \in SourcedAtStart(1)
    /\ Files(Target(1), fs[Target(1)])
         = {Game[1].ROM[i].Name : i \in SourcedAtStart(1)}


\* worker w is between its calls of db.find and the end of transfer
Copying(w) ==
  \/ pc[w] = "create" /\ ri[w] > 1
  \/ pc[w] \in {"c_writer", "c_transfer", "m_temp", "m_transfer"}

\* worker w has a writer open
Writing(w) == pc[w] \in {"c_transfer", "c_close", "m_transfer", "m_close"}

\* C40: while a worker is between its calls of db.find and the end of
\* transfer, no step of another worker deletes or changes an archive of the
\* target directory; and two workers that have a writer open write to
\* different paths.
C40_TargetsStableWhileCopying ==
  /\ [][\A w, v \in Workers :
          (w # v /\ Copying(w) /\ pc'[v] # pc[v]) =>
            \A g \in Games :
              fs[Target(g)].t = "zip" => fs'[Target(g)] = fs[Target(g)]]_vars
  /\ [](\A w, v \in Workers :
          (w # v /\ Writing(w) /\ Writing(v)) =>
            /\ Target(wgame[w]) # Target(wgame[v])
            /\ Temp(w) # Temp(v))

\* create of one game is in transfer while the other worker waits in
\* modify, before s.mutex.Lock(), for a game whose archive is there
C40_Witness ==
  \E w, v \in Workers :
    /\ pc[w] = "c_transfer" /\ pc[v] = "modify"
    /\ fs[Target(wgame[v])].t = "zip"

====
